---------------------------- MODULE Spec2Model ----------------------------
(***************************************************************************)
(* Hydrolytix Agri Intelligence: the data aggregation layer.               *)
(*                                                                         *)
(* The loader (src/utils/data_loader.py) holds one table, self.df, built   *)
(* once from a CSV file.  Dash callbacks (src/app.py) serve requests by    *)
(* calling filter_data / get_summary_stats / get_trend_data on the loader. *)
(*                                                                         *)
(* Representation.                                                         *)
(*  - A Python str is a sequence of one-character strings, so that int(),  *)
(*    float(), str.replace, str.lower and the ordering of sorted() are     *)
(*    computed character by character.                                     *)
(*  - A Python float is an exact rational <<n, d>> in lowest terms with    *)
(*    d > 0; NaN is <<0, 0>>.  Binary rounding of floats is not modelled.  *)
(*  - The hectare columns hold whole numbers.                              *)
(*  - A DataFrame is the sequence of its rows; a row is a record with one  *)
(*    field per column.                                                    *)
(*  - A call is a record [raised, exc, value, df]: whether it raised, the  *)
(*    exception's class, the value returned, and the loader's table as the *)
(*    call leaves it.                                                      *)
(***************************************************************************)
EXTENDS Integers, Sequences, FiniteSets

VARIABLES
  df,        \* DataLoader.df, the loaded table (data_loader.py:16)
  request,   \* the callback being served and its inputs, or Idle (app.py)
  response   \* what that callback returned or raised

vars == <<df, request, response>>

----------------------------------------------------------------------------
(* Python strings *)

Str_All      == <<"A", "l", "l">>
Str_Rabi     == <<"R", "a", "b", "i">>
Str_Kharif   == <<"K", "h", "a", "r", "i", "f">>
Str_Zaid     == <<"Z", "a", "i", "d">>

\* Printable ASCII in code-point order; ASCII[i] has code point 31 + i.  The
\* quote, the backslash and the backtick are spelled out.
ASCII ==
  <<" ", "!", "<quote>", "#", "$", "%", "&", "'", "(", ")", "*", "+", ",", "-", ".", "/",
    "0", "1", "2", "3", "4", "5", "6", "7", "8", "9", ":", ";", "<", "=", ">", "?",
    "@", "A", "B", "C", "D", "E", "F", "G", "H", "I", "J", "K", "L", "M", "N", "O",
    "P", "Q", "R", "S", "T", "U", "V", "W", "X", "Y", "Z", "[", "<backslash>", "]", "^", "_",
    "<backtick>", "a", "b", "c", "d", "e", "f", "g", "h", "i", "j", "k", "l", "m", "n", "o",
    "p", "q", "r", "s", "t", "u", "v", "w", "x", "y", "z", "{", "|", "}", "~">>

CodePoint(c) == 31 + (CHOOSE i \in 1..Len(ASCII) : ASCII[i] = c)

IsDigit(c) == c \in {"0", "1", "2", "3", "4", "5", "6", "7", "8", "9"}

DigitVal(c) == CodePoint(c) - CodePoint("0")

\* Python's order on str: lexicographic by code point, a proper prefix first.
RECURSIVE StrLess(_, _)
StrLess(a, b) ==
  IF b = <<>> THEN FALSE
  ELSE IF a = <<>> THEN TRUE
  ELSE IF Head(a) = Head(b) THEN StrLess(Tail(a), Tail(b))
  ELSE CodePoint(Head(a)) < CodePoint(Head(b))

\* str.strip() for the blank.
RECURSIVE LStrip(_)
LStrip(s) == IF s # <<>> /\ Head(s) = " " THEN LStrip(Tail(s)) ELSE s

RECURSIVE RStrip(_)
RStrip(s) ==
  IF s # <<>> /\ s[Len(s)] = " " THEN RStrip(SubSeq(s, 1, Len(s) - 1)) ELSE s

Strip(s) == RStrip(LStrip(s))

\* The value of a run of decimal digits, most significant first.
RECURSIVE DigitsValue(_, _)
DigitsValue(s, acc) ==
  IF s = <<>> THEN acc ELSE DigitsValue(Tail(s), 10 * acc + DigitVal(Head(s)))

AllDigits(s) == \A i \in 1..Len(s) : IsDigit(s[i])

----------------------------------------------------------------------------
(* Floats as exact rationals *)

Abs(n) == IF n < 0 THEN -n ELSE n

RECURSIVE GCD(_, _)
GCD(a, b) == IF b = 0 THEN a ELSE GCD(b, a % b)

NaN == <<0, 0>>

IsNaN(q) == q[2] = 0

Rat(n, d) ==
  IF d = 0 THEN NaN
  ELSE LET g == GCD(Abs(n), Abs(d))
           s == IF d < 0 THEN -1 ELSE 1
       IN  <<(s * n) \div g, (s * d) \div g>>

FromInt(n) == <<n, 1>>

RatAdd(p, q) ==
  IF IsNaN(p) \/ IsNaN(q) THEN NaN ELSE Rat(p[1] * q[2] + q[1] * p[2], p[2] * q[2])

RatDivInt(p, k) == IF IsNaN(p) \/ k = 0 THEN NaN ELSE Rat(p[1], p[2] * k)

RatMul(p, q) ==
  IF IsNaN(p) \/ IsNaN(q) THEN NaN ELSE Rat(p[1] * q[1], p[2] * q[2])

RatSub(p, q) == RatAdd(p, RatMul(FromInt(-1), q))

RECURSIVE Pow10(_)
Pow10(k) == IF k = 0 THEN 1 ELSE 10 * Pow10(k - 1)

----------------------------------------------------------------------------
(* Calls and Python values *)

Ok(v, table) == [raised |-> FALSE, exc |-> "", value |-> v, df |-> table]

Raise(e, table) == [raised |-> TRUE, exc |-> e, value |-> <<>>, df |-> table]

\* F(v), with v evaluated once and named inside F.
Bind(v, F(_)) == CHOOSE r \in { F(x) : x \in {v} } : TRUE

\* A selector value as the UI sends it: a str or an int.
StrVal(s) == [t |-> "str", s |-> s, n |-> 0]

IntVal(n) == [t |-> "int", s |-> <<>>, n |-> n]

\* Python's  v != "All"  (an int is never equal to a str).
NotAll(v) == ~(v.t = "str" /\ v.s = Str_All)

\* The position of the first character of s that is c, or 0.
FirstIndex(s, c) ==
  IF \E i \in 1..Len(s) : s[i] = c
  THEN CHOOSE i \in 1..Len(s) : s[i] = c /\ \A j \in 1..(i - 1) : s[j] # c
  ELSE 0

\* The sign and the unsigned rest of a numeral.
SignOf(s) == IF s # <<>> /\ Head(s) = "-" THEN -1 ELSE 1

Unsigned(s) == IF s # <<>> /\ Head(s) \in {"+", "-"} THEN Tail(s) ELSE s

\* Python's grouping underscores: single, and only between digits.
UnderscoresOk(s) ==
  /\ s # <<>>
  /\ IsDigit(s[1]) /\ IsDigit(s[Len(s)])
  /\ \A i \in 1..Len(s) : IsDigit(s[i]) \/ s[i] = "_"
  /\ \A i \in 1..(Len(s) - 1) : ~(s[i] = "_" /\ s[i + 1] = "_")

NoUnderscores(s) == SelectSeq(s, LAMBDA c : c # "_")

\* int(v): an int is returned as it is; a str is stripped, may carry a sign,
\* and must then be a decimal numeral, else ValueError.
PyInt(v) ==
  IF v.t = "int" THEN [raised |-> FALSE, value |-> v.n]
  ELSE LET body == Unsigned(Strip(v.s))
       IN  IF UnderscoresOk(body)
           THEN [raised |-> FALSE,
                 value  |-> SignOf(Strip(v.s)) * DigitsValue(NoUnderscores(body), 0)]
           ELSE [raised |-> TRUE, value |-> 0]

\* float(s) on decimal literals  [sign] digits [. digits]  (at least one
\* digit; single underscores between the digits of either part, as in
\* int()); anything else is a ValueError.  Exponents, inf and nan are outside
\* the literals modelled.
PyFloat(s) ==
  LET t     == Strip(s)
      body  == Unsigned(t)
      dot   == FirstIndex(body, ".")
      whole == IF dot = 0 THEN body ELSE SubSeq(body, 1, dot - 1)
      frac  == IF dot = 0 THEN <<>> ELSE SubSeq(body, dot + 1, Len(body))
      w     == NoUnderscores(whole)
      f     == NoUnderscores(frac)
  IN  IF /\ whole = <<>> \/ UnderscoresOk(whole)
         /\ frac = <<>> \/ UnderscoresOk(frac)
         /\ Len(whole) + Len(frac) > 0
      THEN [raised |-> FALSE,
            value  |-> Rat(SignOf(t) * DigitsValue(w \o f, 0), Pow10(Len(f)))]
      ELSE [raised |-> TRUE, value |-> NaN]

\* str.replace("%", "", regex=False): every occurrence is removed.
ReplacePercent(s) == SelectSeq(s, LAMBDA c : c # "%")

----------------------------------------------------------------------------
(* The source file and the load *)

\* A row of the file as read_csv gives it.  Columns: Year, Season,
\* Area = "Area under Production (Hac)", Burned = "Burned Area (Hac)",
\* Difference = "Difference (Hac)", PctStr = "% Difference".
RawRow(y, s, a, b, d, p) ==
  [Year |-> y, Season |-> s, Area |-> a, Burned |-> b, Difference |-> d, PctStr |-> p]

RawRows ==
  { RawRow(2018, Str_Kharif, 200, 40, 160, <<"1", "0", "%">>),
    RawRow(2019, Str_Kharif, 150, 30, 110, <<"2", "0", "%">>),
    RawRow(2020, Str_Kharif, 180, 54, 126, <<"3", "0", "%">>),
    RawRow(2021, Str_Kharif, 160, 64,  96, <<"4", "0", "%">>),
    RawRow(2020, Str_Rabi,   100, 10,  90, <<"1", "0", "%">>),
    RawRow(2021, Str_Rabi,   120, 15, 105, <<"1", "2", ".", "5", "%">>) }

MaxRows == 4

\* The files: up to MaxRows distinct records, in any order.
RawTables ==
  { t \in UNION { [1..n -> RawRows] : n \in 0..MaxRows } :
      \A i, j \in 1..Len(t) : i # j => t[i] # t[j] }

\* _clean_data on one row: Year through astype(int), and the numeric
\* percentage derived from the percentage string.
CleanRow(r) ==
  [Year       |-> PyInt(IntVal(r.Year)).value,
   Season     |-> r.Season,
   Area       |-> r.Area,
   Burned     |-> r.Burned,
   Difference |-> r.Difference,
   PctStr     |-> r.PctStr,
   PctNumeric |-> PyFloat(ReplacePercent(r.PctStr)).value]

clean_data(raw) == [i \in 1..Len(raw) |-> CleanRow(raw[i])]

----------------------------------------------------------------------------
(* DataLoader *)

\* Series.sum() of a whole-number column; 0 on an empty table.
RECURSIVE Sum(_, _)
Sum(view, col) ==
  IF view = <<>> THEN 0 ELSE Head(view)[col] + Sum(Tail(view), col)

RECURSIVE RatSum(_)
RatSum(qs) == IF qs = <<>> THEN FromInt(0) ELSE RatAdd(Head(qs), RatSum(Tail(qs)))

\* Mean with an empty selection turned into 0 (as .mean() followed by fillna(0)).
MeanOrZero(qs) ==
  LET valid == SelectSeq(qs, LAMBDA q : ~IsNaN(q))
  IN  IF valid = <<>> THEN FromInt(0) ELSE RatDivInt(RatSum(valid), Len(valid))

\* Series.mean(): NaN values are skipped; NaN when nothing is left.
Mean(qs) ==
  LET valid == SelectSeq(qs, LAMBDA q : ~IsNaN(q))
  IN  IF valid = <<>> THEN NaN ELSE RatDivInt(RatSum(valid), Len(valid))

Column(view, col) == [i \in 1..Len(view) |-> view[i][col]]

\* filter_data without the copy, filtering self.df itself.
filter_data_inplace(table, season, year) ==
  LET bySeason == IF season # Str_All
                  THEN SelectSeq(table, LAMBDA r : r.Season = season)
                  ELSE table
  IN  IF NotAll(year)
      THEN IF PyInt(year).raised
           THEN Raise("ValueError", bySeason)
           ELSE LET v == SelectSeq(bySeason, LAMBDA r : r.Year = PyInt(year).value)
                IN  Ok(v, v)
      ELSE Ok(bySeason, bySeason)

\* filter_data with the year mask applied to self.df instead of filtered_df,
\* which loses the season filter whenever a year is given.
filter_data_year_on_df(table, season, year) ==
  LET bySeason == IF season # Str_All
                  THEN SelectSeq(table, LAMBDA r : r.Season = season)
                  ELSE table
  IN  IF NotAll(year)
      THEN IF PyInt(year).raised
           THEN Raise("ValueError", table)
           ELSE Ok(SelectSeq(table, LAMBDA r : r.Year = PyInt(year).value), table)
      ELSE Ok(bySeason, table)

\* filter_data that slices the first row off its result (.iloc[1:]).
filter_data_skip_first(table, season, year) ==
  LET bySeason == IF season # Str_All
                  THEN SelectSeq(table, LAMBDA r : r.Season = season)
                  ELSE table
      byYear   == IF NotAll(year) /\ ~PyInt(year).raised
                  THEN SelectSeq(bySeason, LAMBDA r : r.Year = PyInt(year).value)
                  ELSE bySeason
  IN  IF NotAll(year) /\ PyInt(year).raised THEN Raise("ValueError", table)
      ELSE Ok(IF byYear = <<>> THEN <<>> ELSE Tail(byYear), table)

\* filter_data that rejects a selector matching no record.
filter_data_strict(table, season, year) ==
  LET bySeason == IF season # Str_All
                  THEN SelectSeq(table, LAMBDA r : r.Season = season)
                  ELSE table
      byYear   == IF NotAll(year) /\ ~PyInt(year).raised
                  THEN SelectSeq(bySeason, LAMBDA r : r.Year = PyInt(year).value)
                  ELSE bySeason
  IN  IF NotAll(year) /\ PyInt(year).raised THEN Raise("ValueError", table)
      ELSE IF byYear = <<>> /\ (season # Str_All \/ NotAll(year))
      THEN Raise("InvalidSelectorError", table)
      ELSE Ok(byYear, table)

filter_data(table, season, year) ==
  LET filtered_df == table
      bySeason    == IF season # Str_All
                     THEN SelectSeq(filtered_df, LAMBDA r : r.Season = season)
                     ELSE filtered_df
  IN  IF NotAll(year)
      THEN IF PyInt(year).raised
           THEN Raise("ValueError", table)
           ELSE Ok(SelectSeq(bySeason, LAMBDA r : r.Year = PyInt(year).value), table)
      ELSE Ok(bySeason, table)

\* get_summary_stats with the percentage taken as the ratio of the totals
\* instead of the mean of the records' percentages.
get_summary_stats_ratio(table, season, year) ==
  LET f == filter_data(table, season, year)
  IN  IF f.raised THEN f
      ELSE Ok([total_area  |-> Sum(f.value, "Area"),
               burned_area |-> Sum(f.value, "Burned"),
               difference  |-> Sum(f.value, "Difference"),
               pct_avg     |-> Rat(100 * Sum(f.value, "Burned"), Sum(f.value, "Area"))],
              f.df)

get_summary_stats(table, season, year) ==
  LET f == filter_data(table, season, year)
  IN  IF f.raised THEN f
      ELSE Ok([total_area  |-> Sum(f.value, "Area"),
               burned_area |-> Sum(f.value, "Burned"),
               difference  |-> Sum(f.value, "Difference"),
               pct_avg     |-> Mean(Column(f.value, "PctNumeric"))], f.df)

\* DataFrame.sort_values("Year"): rows in ascending Year.  For tables this
\* short the sort is an insertion sort, which keeps equal years in order.
RECURSIVE InsertByYear(_, _)
InsertByYear(sorted, r) ==
  IF sorted = <<>> THEN <<r>>
  ELSE IF sorted[Len(sorted)].Year <= r.Year THEN Append(sorted, r)
  ELSE Append(InsertByYear(SubSeq(sorted, 1, Len(sorted) - 1), r), sorted[Len(sorted)])

RECURSIVE SortByYearFrom(_, _)
SortByYearFrom(sorted, rest) ==
  IF rest = <<>> THEN sorted
  ELSE SortByYearFrom(InsertByYear(sorted, Head(rest)), Tail(rest))

sort_values(view) == SortByYearFrom(<<>>, view)

RECURSIVE Ascending(_)
Ascending(S) ==
  IF S = {} THEN <<>>
  ELSE LET m == CHOOSE x \in S : \A y \in S : x <= y
       IN  <<m>> \o Ascending(S \ {m})

\* Group keys taken per (Year, Season) pair, as groupby(["Year", "Season"])
\* gives them: a year comes once for each of its seasons.
GroupKeysYearSeason(view) ==
  LET years == Ascending({ view[i].Year : i \in 1..Len(view) })
      times(y) == Cardinality({ view[i].Season : i \in { j \in 1..Len(view) : view[j].Year = y } })
      cat[k \in 0..Len(years)] ==
        IF k = 0 THEN <<>>
        ELSE cat[k - 1] \o [j \in 1..times(years[k]) |-> years[k]]
  IN  cat[Len(years)]

\* The group keys of groupby("Year"): the distinct years, ascending.
GroupKeys(view) == Ascending({ view[i].Year : i \in 1..Len(view) })

Group(view, y) == SelectSeq(view, LAMBDA r : r.Year = y)

\* The aggregation with "sum" for both columns.
TrendAggSumBoth(view) ==
  LET keys == GroupKeys(view)
  IN  [i \in 1..Len(keys) |->
         [Year |-> keys[i],
          Area |-> Sum(Group(view, keys[i]), "Area"),
          Pct  |-> RatSum(Column(Group(view, keys[i]), "PctNumeric"))]]

\* groupby("Year", as_index=False).agg({Area: sum, Pct: mean}), renamed.
TrendAgg(view) ==
  LET keys == GroupKeys(view)
  IN  [i \in 1..Len(keys) |->
         [Year |-> keys[i],
          Area |-> Sum(Group(view, keys[i]), "Area"),
          Pct  |-> Mean(Column(Group(view, keys[i]), "PctNumeric"))]]

RollingWindow == 3

MinPeriods == 1

\* rolling(RollingWindow).mean() without min_periods, which then equals the
\* window: NaN until RollingWindow rows are there.
RollingMeanFullWindow(qs, i) ==
  LET lo     == IF i - RollingWindow + 1 < 1 THEN 1 ELSE i - RollingWindow + 1
      window == SubSeq(qs, lo, i)
      valid  == SelectSeq(window, LAMBDA q : ~IsNaN(q))
  IN  IF Len(valid) >= RollingWindow THEN Mean(valid) ELSE NaN

\* Series.rolling(RollingWindow, min_periods=MinPeriods).mean() at row i:
\* the mean of the values of the last RollingWindow rows that are not NaN,
\* NaN when fewer than MinPeriods are.
RollingMean(qs, i) ==
  LET lo     == IF i - RollingWindow + 1 < 1 THEN 1 ELSE i - RollingWindow + 1
      window == SubSeq(qs, lo, i)
      valid  == SelectSeq(window, LAMBDA q : ~IsNaN(q))
  IN  IF Len(valid) >= MinPeriods THEN Mean(valid) ELSE NaN

\* get_trend_data that needs at least one record: the first year of an empty
\* frame is an IndexError.
get_trend_data_needs_rows(table, season) ==
  LET f         == filter_data(table, season, StrVal(Str_All))
      trend_agg == TrendAgg(sort_values(f.value))
      pcts      == Column(trend_agg, "Pct")
  IN  IF f.raised THEN f
      ELSE IF f.value = <<>> THEN Raise("IndexError", f.df)
      ELSE Ok([i \in 1..Len(trend_agg) |->
                 [Year          |-> trend_agg[i].Year,
                  Area          |-> trend_agg[i].Area,
                  Pct           |-> trend_agg[i].Pct,
                  RollingAvgPct |-> RollingMean(pcts, i)]], f.df)

get_trend_data(table, season) ==
  LET f         == filter_data(table, season, StrVal(Str_All))
      trend_agg == TrendAgg(sort_values(f.value))
      pcts      == Column(trend_agg, "Pct")
  IN  IF f.raised THEN f
      ELSE Ok([i \in 1..Len(trend_agg) |->
                 [Year          |-> trend_agg[i].Year,
                  Area          |-> trend_agg[i].Area,
                  Pct           |-> trend_agg[i].Pct,
                  RollingAvgPct |-> RollingMean(pcts, i)]], f.df)

\* get_seasons(): "All", then the distinct seasons in str order.
RECURSIVE AscendingStr(_)
AscendingStr(S) ==
  IF S = {} THEN <<>>
  ELSE LET m == CHOOSE x \in S : \A y \in S : x = y \/ StrLess(x, y)
       IN  <<m>> \o AscendingStr(S \ {m})

\* get_seasons() without unique(): a season comes once per record.
get_seasons_not_unique(table) ==
  LET S == AscendingStr({ table[i].Season : i \in 1..Len(table) })
      cat[k \in 0..Len(S)] ==
        IF k = 0 THEN <<>>
        ELSE cat[k - 1] \o Column(SelectSeq(table, LAMBDA r : r.Season = S[k]), "Season")
  IN  <<Str_All>> \o cat[Len(S)]

get_seasons(table) ==
  <<Str_All>> \o AscendingStr({ table[i].Season : i \in 1..Len(table) })

\* get_years() without sorted(): "All", then the years as unique() gives
\* them, in the order they first come in the table.
get_years_unsorted(table) ==
  LET first == SelectSeq([i \in 1..Len(table) |-> i],
                         LAMBDA i : \A j \in 1..(i - 1) : table[j].Year # table[i].Year)
  IN  <<StrVal(Str_All)>> \o [k \in 1..Len(first) |-> IntVal(table[first[k]].Year)]

\* get_years(): "All", then the distinct years (ints) in ascending order.
get_years(table) ==
  LET years == Ascending({ table[i].Year : i \in 1..Len(table) })
  IN  <<StrVal(Str_All)>> \o [k \in 1..Len(years) |-> IntVal(years[k])]

----------------------------------------------------------------------------
(* Formatters *)

\* The em dash of the placeholders, one character.
EmDash == "<emdash>"

DigitChar(d) == ASCII[CodePoint("0") - 31 + d]

\* str(n): the decimal numeral, with "-" before a negative one.
RECURSIVE IntToStr(_)
IntToStr(n) ==
  IF n < 0 THEN <<"-">> \o IntToStr(-n)
  ELSE IF n < 10 THEN <<DigitChar(n)>>
  ELSE Append(IntToStr(n \div 10), DigitChar(n % 10))

\* The integer nearest to q * 10^k, a tie going to the even one (q >= 0).
\* The values formatted here are binary fractions wherever they are ties, so
\* the float and the exact value round alike.
RoundHalfEven(q, k) ==
  LET x     == q[1] * Pow10(k)
      floor == x \div q[2]
      rem   == x % q[2]
  IN  IF 2 * rem < q[2] THEN floor
      ELSE IF 2 * rem > q[2] THEN floor + 1
      ELSE IF floor % 2 = 0 THEN floor ELSE floor + 1

\* The "," option of the format spec: a comma before every group of three
\* digits, counted from the right.
RECURSIVE Grouped(_)
Grouped(digits) ==
  IF Len(digits) <= 3 THEN digits
  ELSE Grouped(SubSeq(digits, 1, Len(digits) - 3))
         \o <<",">> \o SubSeq(digits, Len(digits) - 2, Len(digits))

\* zero-padded numeral of n with `width` digits
RECURSIVE Padded(_, _)
Padded(n, width) ==
  IF width = 0 THEN <<>> ELSE Append(Padded(n \div 10, width - 1), DigitChar(n % 10))

\* f"{q:,.{decimals}f}" (grouping) and f"{q:.{decimals}f}".
FixedPoint(q, decimals, grouping) ==
  LET mag    == <<Abs(q[1]), q[2]>>
      scaled == RoundHalfEven(mag, decimals)
      whole  == IntToStr(scaled \div Pow10(decimals))
      frac   == Padded(scaled % Pow10(decimals), decimals)
  IN  (IF q[1] < 0 THEN <<"-">> ELSE <<>>)
        \o (IF grouping THEN Grouped(whole) ELSE whole)
        \o (IF decimals > 0 THEN <<".">> \o frac ELSE <<>>)

\* str.rstrip(c): the trailing run of the character c is removed.
RECURSIVE RStripChar(_, _)
RStripChar(s, c) ==
  IF s # <<>> /\ s[Len(s)] = c THEN RStripChar(SubSeq(s, 1, Len(s) - 1), c) ELSE s

\* Formatters.format_number(value, decimals=0, suffix=""), value a number.
\* With decimals = 0 the numeral has no "." and rstrip('0') works on the
\* digits of the whole number.
format_number(value, decimals, suffix) ==
  IF IsNaN(value) THEN <<EmDash>>
  ELSE LET formatted == FixedPoint(value, decimals, TRUE)
       IN  (IF decimals = 0
            THEN RStripChar(RStripChar(formatted, "0"), ".")
            ELSE formatted) \o suffix

\* format_percentage with NaN shown as zero.
format_percentage_nan_as_zero(value, decimals) ==
  IF IsNaN(value) THEN FixedPoint(FromInt(0), decimals, FALSE) \o <<"%">>
  ELSE FixedPoint(value, decimals, FALSE) \o <<"%">>

\* Formatters.format_percentage(value, decimals=1), value a float.
format_percentage(value, decimals) ==
  IF IsNaN(value) THEN <<EmDash, "%">>
  ELSE FixedPoint(value, decimals, FALSE) \o <<"%">>

\* The defaults of format_number and format_percentage.
NumberDecimals == 0

PercentDecimals == 1

\* str(year) inside an f-string.
YearText(year) == IF year.t = "str" THEN year.s ELSE IntToStr(year.n)

\* Formatters.format_scope(season, year): the pieces of its f-strings.
format_scope(season, year) ==
  IF season = Str_All /\ ~NotAll(year) THEN <<"All Data">>
  ELSE IF season = Str_All THEN <<"Year ", YearText(year)>>
  ELSE IF ~NotAll(year) THEN <<season>>
  ELSE <<season, ", ", YearText(year)>>

\* The bullet of the titles, one character.
Bullet == "<bullet>"

\* Formatters.get_trend_title(season)
get_trend_title(season) ==
  <<"Yearly Area & 3-Year Rolling % Difference ", Bullet, " ",
    IF season # Str_All THEN season ELSE "All Seasons">>

\* Formatters.get_donut_title(season, year)
get_donut_title(season, year) ==
  <<"Composition ", Bullet, " ">> \o format_scope(season, year)

----------------------------------------------------------------------------
(* The overview tab: update_dashboard *)

Max(a, b) == IF a >= b THEN a ELSE b

\* DonutChart.create_figure(area, burned, difference, scope): the three
\* slices, none below 0.
DonutFigure(area, burned, difference, scope) ==
  [values |-> <<Max(area, 0), Max(burned, 0), Max(difference, 0)>>, scope |-> scope]

\* update_dashboard(season, year): the twelve outputs.  No call is inside a
\* try, so an exception of the loader leaves the callback.
update_dashboard(table, season, year) ==
  LET f     == filter_data(table, season, year)
      stats == get_summary_stats(f.df, season, year)
      trend == get_trend_data(stats.df, season)
  IN  IF f.raised THEN f
      ELSE IF stats.raised THEN stats
      ELSE IF trend.raised THEN trend
      ELSE Ok([kpi_area       |-> format_number(FromInt(stats.value.total_area),
                                                NumberDecimals, <<>>),
               kpi_area_sub   |-> format_scope(season, year),
               kpi_burned     |-> format_number(FromInt(stats.value.burned_area),
                                                NumberDecimals, <<>>),
               kpi_burned_sub |-> format_scope(season, year),
               kpi_diff       |-> format_number(FromInt(stats.value.difference),
                                                NumberDecimals, <<>>),
               kpi_diff_sub   |-> format_scope(season, year),
               kpi_pct        |-> format_percentage(stats.value.pct_avg, PercentDecimals),
               kpi_pct_sub    |-> "Average across selection",
               donut_fig      |-> DonutFigure(stats.value.total_area,
                                              stats.value.burned_area,
                                              stats.value.difference,
                                              format_scope(season, year)),
               donut_title    |-> get_donut_title(season, year),
               trend_fig      |-> [bar_x  |-> Column(trend.value, "Year"),
                                   bar_y  |-> Column(trend.value, "Area"),
                                   line_x |-> Column(trend.value, "Year"),
                                   line_y |-> Column(trend.value, "RollingAvgPct")],
               trend_title    |-> get_trend_title(season)],
              trend.df)

----------------------------------------------------------------------------
(* YearComparison *)

\* comparison_data[year] = entry: a dict keeps a key where it first came and
\* takes the newest value.
DictPut(data, entry) ==
  IF \E i \in 1..Len(data) : data[i].year = entry.year
  THEN [i \in 1..Len(data) |-> IF data[i].year = entry.year THEN entry ELSE data[i]]
  ELSE Append(data, entry)

\* The loop with the stats of the season for every year: get_summary_stats
\* called without the year.
RECURSIVE CompareLoopSeasonStats(_, _, _, _)
CompareLoopSeasonStats(table, season, years, data) ==
  IF years = <<>> THEN Ok(data, table)
  ELSE LET year  == Head(years)
           f     == filter_data(table, season, year)
           stats == get_summary_stats(f.df, season, StrVal(Str_All))
           trend == get_trend_data(stats.df, season)
       IN  IF ~NotAll(year) THEN CompareLoopSeasonStats(table, season, Tail(years), data)
           ELSE IF f.raised THEN CompareLoopSeasonStats(f.df, season, Tail(years), data)
           ELSE IF stats.raised THEN CompareLoopSeasonStats(stats.df, season, Tail(years), data)
           ELSE IF trend.raised THEN CompareLoopSeasonStats(trend.df, season, Tail(years), data)
           ELSE CompareLoopSeasonStats(trend.df, season, Tail(years),
                                       DictPut(data, [year       |-> year,
                                                      stats      |-> stats.value,
                                                      trend_data |-> trend.value]))

\* The loop with the trend of each year cut down to that year's row.
RECURSIVE CompareLoopYearTrend(_, _, _, _)
CompareLoopYearTrend(table, season, years, data) ==
  IF years = <<>> THEN Ok(data, table)
  ELSE LET year  == Head(years)
           f     == filter_data(table, season, year)
           stats == get_summary_stats(f.df, season, year)
           trend == get_trend_data(stats.df, season)
       IN  IF ~NotAll(year) THEN CompareLoopYearTrend(table, season, Tail(years), data)
           ELSE IF f.raised THEN CompareLoopYearTrend(f.df, season, Tail(years), data)
           ELSE IF stats.raised THEN CompareLoopYearTrend(stats.df, season, Tail(years), data)
           ELSE IF trend.raised THEN CompareLoopYearTrend(trend.df, season, Tail(years), data)
           ELSE CompareLoopYearTrend(trend.df, season, Tail(years),
                  DictPut(data, [year       |-> year,
                                 stats      |-> stats.value,
                                 trend_data |-> SelectSeq(trend.value,
                                                  LAMBDA r : r.Year = PyInt(year).value)]))

\* The loop of create_comparison_figures over years: state is the dict built
\* so far and the loader's table.  A year whose calls raise is skipped.
RECURSIVE CompareLoop(_, _, _, _)
CompareLoop(table, season, years, data) ==
  IF years = <<>> THEN Ok(data, table)
  ELSE LET year  == Head(years)
           f     == filter_data(table, season, year)
           stats == get_summary_stats(f.df, season, year)
           trend == get_trend_data(stats.df, season)
       IN  IF ~NotAll(year) THEN CompareLoop(table, season, Tail(years), data)
           ELSE IF f.raised THEN CompareLoop(f.df, season, Tail(years), data)
           ELSE IF stats.raised THEN CompareLoop(stats.df, season, Tail(years), data)
           ELSE IF trend.raised THEN CompareLoop(trend.df, season, Tail(years), data)
           ELSE CompareLoop(trend.df, season, Tail(years),
                            DictPut(data, [year       |-> year,
                                           stats      |-> stats.value,
                                           trend_data |-> trend.value]))

MinComparisonYears == 2

EmptyComparison == [placeholder |-> TRUE, comparison_data |-> <<>>]

\* create_comparison_figures with the check on the selection only, not the
\* one on comparison_data after the loop.
create_comparison_figures_first_check_only(table, season, years) ==
  IF years = <<>> \/ years = <<StrVal(Str_All)>> \/ Len(years) < MinComparisonYears
  THEN Ok(EmptyComparison, table)
  ELSE LET loop == CompareLoop(table, season, years, <<>>)
       IN  Ok([placeholder |-> FALSE, comparison_data |-> loop.value],
              get_trend_data(loop.df, season).df)

\* create_comparison_figures(season, years): the placeholder figures, or the
\* figures drawn from comparison_data (kept here as the data they draw).
create_comparison_figures(table, season, years) ==
  IF years = <<>> \/ years = <<StrVal(Str_All)>> \/ Len(years) < MinComparisonYears
  THEN Ok(EmptyComparison, table)
  ELSE LET loop == CompareLoop(table, season, years, <<>>)
       IN  IF Len(loop.value) < MinComparisonYears
           THEN Ok(EmptyComparison, loop.df)
           ELSE Ok([placeholder |-> FALSE, comparison_data |-> loop.value],
                   IF \E i \in 1..Len(loop.value) : loop.value[i].trend_data # <<>>
                   THEN get_trend_data(loop.df, season).df
                   ELSE loop.df)

----------------------------------------------------------------------------
(* Forecasting *)

\* prepare_forecast_data with the burned branch reading the area column.
prepare_forecast_data_burned_from_area(table, season, metric) ==
  LET f      == filter_data(table, season, StrVal(Str_All))
      sorted == sort_values(f.value)
      keys   == GroupKeys(sorted)
      value(y) ==
        IF metric = "area" THEN FromInt(Sum(Group(sorted, y), "Area"))
        ELSE IF metric = "burned" THEN FromInt(Sum(Group(sorted, y), "Area"))
        ELSE Mean(Column(Group(sorted, y), "PctNumeric"))
  IN  IF f.raised THEN f
      ELSE IF metric \in {"area", "burned", "pct_diff"}
      THEN Ok([i \in 1..Len(keys) |-> [Year |-> keys[i], Value |-> value(keys[i])]], f.df)
      ELSE Raise("ValueError", f.df)

\* prepare_forecast_data with a final else that takes the last metric instead
\* of raising.
prepare_forecast_data_default_metric(table, season, metric) ==
  LET f      == filter_data(table, season, StrVal(Str_All))
      sorted == sort_values(f.value)
      keys   == GroupKeys(sorted)
      value(y) ==
        IF metric = "area" THEN FromInt(Sum(Group(sorted, y), "Area"))
        ELSE IF metric = "burned" THEN FromInt(Sum(Group(sorted, y), "Burned"))
        ELSE Mean(Column(Group(sorted, y), "PctNumeric"))
  IN  IF f.raised THEN f
      ELSE Ok([i \in 1..Len(keys) |-> [Year |-> keys[i], Value |-> value(keys[i])]], f.df)

\* prepare_forecast_data with the percentage added up over the year instead
\* of averaged.
prepare_forecast_data_pct_sum(table, season, metric) ==
  LET f      == filter_data(table, season, StrVal(Str_All))
      sorted == sort_values(f.value)
      keys   == GroupKeys(sorted)
      value(y) ==
        IF metric = "area" THEN FromInt(Sum(Group(sorted, y), "Area"))
        ELSE IF metric = "burned" THEN FromInt(Sum(Group(sorted, y), "Burned"))
        ELSE RatSum(Column(Group(sorted, y), "PctNumeric"))
  IN  IF f.raised THEN f
      ELSE IF metric \in {"area", "burned", "pct_diff"}
      THEN Ok([i \in 1..Len(keys) |-> [Year |-> keys[i], Value |-> value(keys[i])]], f.df)
      ELSE Raise("ValueError", f.df)

\* prepare_forecast_data(season, metric): one (Year, Value) row per year of
\* the season's records; Value is a float.
prepare_forecast_data(table, season, metric) ==
  LET f      == filter_data(table, season, StrVal(Str_All))
      sorted == sort_values(f.value)
      keys   == GroupKeys(sorted)
      value(y) ==
        IF metric = "area" THEN FromInt(Sum(Group(sorted, y), "Area"))
        ELSE IF metric = "burned" THEN FromInt(Sum(Group(sorted, y), "Burned"))
        ELSE Mean(Column(Group(sorted, y), "PctNumeric"))
  IN  IF f.raised THEN f
      ELSE IF metric \in {"area", "burned", "pct_diff"}
      THEN Ok([i \in 1..Len(keys) |-> [Year |-> keys[i], Value |-> value(keys[i])]], f.df)
      ELSE Raise("ValueError", f.df)

\* What the fitting library (statsmodels, scikit-learn) does with a series is
\* not code of this program: a call of it either raises, or gives `periods`
\* point forecasts, the bounds of its own interval and the errors of the fit.
\* `lib` is that outcome; LibraryOutcomes are the outcomes tried.
LibraryOutcomes ==
  { [raises |-> TRUE,  error |-> "fit failed", level |-> 0, slope |-> 0,
     spread |-> 0, mae |-> NaN, rmse |-> NaN],
    [raises |-> FALSE, error |-> "", level |-> 150, slope |-> 10,
     spread |-> 20, mae |-> <<5, 2>>, rmse |-> <<3, 1>>] }

\* fitted_model.forecast(periods) / get_forecast(periods).predicted_mean.
LibForecast(lib, periods) ==
  [i \in 1..periods |-> FromInt(lib.level + i * lib.slope)]

\* get_forecast(periods).conf_int(): lower and upper column.
LibLower(lib, periods) ==
  [i \in 1..periods |-> FromInt(lib.level + i * lib.slope - i * lib.spread)]

LibUpper(lib, periods) ==
  [i \in 1..periods |-> FromInt(lib.level + i * lib.slope + i * lib.spread)]

\* A float  point + z * sqrt(var):  the square root is kept as the number
\* under it, so that no rounding enters the model.
WithStd(point, z, var) == [point |-> point, z |-> z, var |-> var]

Exact(q) == WithStd(q, FromInt(0), FromInt(0))

\* The square of Series.std() with ddof=0, numpy's default.
PopulationVariance(qs) ==
  LET mean == Mean(qs)
      sq   == [i \in 1..Len(qs) |-> RatMul(RatSub(qs[i], mean), RatSub(qs[i], mean))]
  IN  IF qs = <<>> THEN NaN ELSE RatDivInt(RatSum(sq), Len(qs))

\* The square of Series.std(): NaN values are skipped, and pandas divides by
\* n - 1 (ddof=1), so the std of one value, or of none, is NaN.
SampleVariance(qs) ==
  LET valid == SelectSeq(qs, LAMBDA q : ~IsNaN(q))
      mean  == Mean(valid)
      sq    == [i \in 1..Len(valid) |->
                  RatMul(RatSub(valid[i], mean), RatSub(valid[i], mean))]
  IN  IF valid = <<>> THEN NaN ELSE RatDivInt(RatSum(sq), Len(valid) - 1)

\* 1.96
Z95 == <<49, 25>>

MaxSeasonalPeriods == 3

\* seasonal_periods=min(3, len(ts))
SeasonalPeriods(ts) == IF Len(ts) < MaxSeasonalPeriods THEN Len(ts) ELSE MaxSeasonalPeriods

\* data['Year'].max()
MaxYear(data) ==
  CHOOSE y \in { data[i].Year : i \in 1..Len(data) } :
    \A i \in 1..Len(data) : data[i].Year <= y

\* Forecast years that start at the last historical year.
ForecastYearsFromLast(data, periods) ==
  [i \in 1..periods |-> MaxYear(data) + (i - 1)]

\* forecast_years = [data['Year'].max() + i + 1 for i in range(periods)]
ForecastYears(data, periods) ==
  [i \in 1..periods |-> MaxYear(data) + (i - 1) + 1]

\* _create_empty_forecast(periods): the frame with the four columns and no row.
create_empty_forecast(periods) == <<>>

\* The dict of fit metrics: `keys` are the keys it has.
FitMetrics(mae, rmse, model_type) ==
  [keys |-> {"mae", "rmse", "model_type"}, mae |-> mae, rmse |-> rmse,
   model_type |-> model_type, error |-> ""]

FitError(message) ==
  [keys |-> {"error"}, mae |-> NaN, rmse |-> NaN, model_type |-> "", error |-> message]

\* ExponentialSmoothing(ts, trend='add', seasonal='add', seasonal_periods=...)
\* .fit(): the library refuses an empty series and a seasonal period below 2.
ExponentialSmoothingRaises(data, lib) ==
  lib.raises \/ data = <<>> \/ SeasonalPeriods(data) < 2

\* ARIMA(ts, order=(1, 1, 1)).fit(): the library refuses an empty series.
ArimaRaises(data, lib) == lib.raises \/ data = <<>>

\* The message of the exception a fit raised.
FitMessage(lib) == IF lib.raises THEN lib.error ELSE "series too short"

\* exponential_smoothing_forecast(data, periods); value: [forecast_data, metrics].
exponential_smoothing_forecast(table, data, periods, lib) ==
  IF ExponentialSmoothingRaises(data, lib)
  THEN Ok([forecast_data |-> create_empty_forecast(periods),
           metrics       |-> FitError(FitMessage(lib))], table)
  ELSE LET forecast == LibForecast(lib, periods)
           var      == SampleVariance(Column(data, "Value"))
           years    == ForecastYears(data, periods)
       IN  Ok([forecast_data |->
                 [i \in 1..periods |->
                    [Year     |-> years[i],
                     Forecast |-> forecast[i],
                     Lower_CI |-> WithStd(forecast[i], RatMul(FromInt(-1), Z95), var),
                     Upper_CI |-> WithStd(forecast[i], Z95, var)]],
               metrics |-> FitMetrics(lib.mae, lib.rmse, "Exponential Smoothing")],
              table)

\* arima_forecast without the try/except: the exception of the fit leaves the
\* function.
arima_forecast_no_except(table, data, periods, lib) ==
  IF ArimaRaises(data, lib)
  THEN Raise("Exception", table)
  ELSE LET forecast == LibForecast(lib, periods)
           years    == ForecastYears(data, periods)
       IN  Ok([forecast_data |->
                 [i \in 1..periods |->
                    [Year     |-> years[i],
                     Forecast |-> forecast[i],
                     Lower_CI |-> Exact(LibLower(lib, periods)[i]),
                     Upper_CI |-> Exact(LibUpper(lib, periods)[i])]],
               metrics |-> FitMetrics(lib.mae, lib.rmse, "ARIMA(1,1,1)")],
              table)

\* arima_forecast(data, periods); value: [forecast_data, metrics].
arima_forecast(table, data, periods, lib) ==
  IF ArimaRaises(data, lib)
  THEN Ok([forecast_data |-> create_empty_forecast(periods),
           metrics       |-> FitError(FitMessage(lib))], table)
  ELSE LET forecast == LibForecast(lib, periods)
           years    == ForecastYears(data, periods)
       IN  Ok([forecast_data |->
                 [i \in 1..periods |->
                    [Year     |-> years[i],
                     Forecast |-> forecast[i],
                     Lower_CI |-> Exact(LibLower(lib, periods)[i]),
                     Upper_CI |-> Exact(LibUpper(lib, periods)[i])]],
               metrics |-> FitMetrics(lib.mae, lib.rmse, "ARIMA(1,1,1)")],
              table)

Reverse(seq) == [i \in 1..Len(seq) |-> seq[Len(seq) + 1 - i]]

\* metric_titles[metric_name]: a KeyError for a name that is no key.
MetricTitle(metric) ==
  CASE metric = "area"     -> [raised |-> FALSE, value |-> "Area under Production"]
    [] metric = "burned"   -> [raised |-> FALSE, value |-> "Burned Area"]
    [] metric = "pct_diff" -> [raised |-> FALSE, value |-> "Percentage Difference"]
    [] OTHER               -> [raised |-> TRUE, value |-> ""]

\* The figure of create_forecast_figure: its traces and its title.  The
\* forecast and interval traces are there only for a forecast with rows.
ForecastFigure(historical_data, forecast_data, metric, season) ==
  [title  |-> <<MetricTitle(metric).value, " Forecast - ",
                IF season # Str_All THEN season ELSE "All Seasons">>,
   traces |->
     <<[name |-> "Historical Data",
        x |-> Column(historical_data, "Year"),
        y |-> Column(historical_data, "Value")]>>
     \o (IF forecast_data = <<>> THEN <<>>
         ELSE <<[name |-> "Forecast",
                 x |-> Column(forecast_data, "Year"),
                 y |-> Column(forecast_data, "Forecast")],
                [name |-> "95% Confidence Interval",
                 x |-> Column(forecast_data, "Year")
                         \o Reverse(Column(forecast_data, "Year")),
                 y |-> Column(forecast_data, "Upper_CI")
                         \o Reverse(Column(forecast_data, "Lower_CI"))]>>)]

\* create_forecast_figure: the figure, or the KeyError of the title lookup.
create_forecast_figure(historical_data, forecast_data, metric, season) ==
  IF MetricTitle(metric).raised
  THEN [raised |-> TRUE, exc |-> "KeyError", value |-> <<>>]
  ELSE [raised |-> FALSE, exc |-> "",
        value  |-> ForecastFigure(historical_data, forecast_data, metric, season)]

\* The callback's answer before the first click: go.Figure(), [].
NoForecast ==
  [clicked |-> FALSE, historical_data |-> <<>>, forecast_data |-> <<>>,
   metrics |-> FitError(""), figure |-> [title |-> <<>>, traces |-> <<>>],
   metrics_display |-> <<>>]

\* metrics.get(key, default)
MetricsGet(metrics, key, default) ==
  IF key \in metrics.keys THEN metrics[key] ELSE default

\* A line of the metrics panel: f"{Formatters.format_number(value)} hectares".
MetricLine(value) == format_number(value, NumberDecimals, <<>>) \o <<" hectares">>

\* generate_forecast(n_clicks, metric, periods, model_type, season).  value
\* keeps the callback's locals (historical_data, forecast_data, metrics) next
\* to what it returns: the figure and the three lines of the metrics panel
\* (MAE, RMSE, model type).
generate_forecast(table, n_clicks, metric, periods, model_type, season, lib) ==
  IF n_clicks > 0
  THEN Bind(prepare_forecast_data(table, season, metric), LAMBDA hist :
         IF hist.raised THEN hist
         ELSE Bind(IF model_type = "exponential"
                   THEN exponential_smoothing_forecast(hist.df, hist.value, periods, lib)
                   ELSE arima_forecast(hist.df, hist.value, periods, lib),
                   LAMBDA fc :
           IF fc.raised THEN fc
           ELSE Bind(create_forecast_figure(hist.value, fc.value.forecast_data,
                                            metric, season),
                     LAMBDA fig :
             IF fig.raised THEN Raise(fig.exc, fc.df)
             ELSE Ok([clicked         |-> TRUE,
                      historical_data |-> hist.value,
                      forecast_data   |-> fc.value.forecast_data,
                      metrics         |-> fc.value.metrics,
                      figure          |-> fig.value,
                      metrics_display |->
                        <<MetricLine(MetricsGet(fc.value.metrics, "mae", FromInt(0))),
                          MetricLine(MetricsGet(fc.value.metrics, "rmse", FromInt(0))),
                          MetricsGet(fc.value.metrics, "model_type", "Unknown")>>],
                     fc.df))))
  ELSE Ok(NoForecast, table)

----------------------------------------------------------------------------
(* Export (ExportReports and the generate_export callback) *)

\* str.lower() on ASCII: A..Z move to a..z, the other characters stay.
LowerChar(c) ==
  IF CodePoint(c) >= CodePoint("A") /\ CodePoint(c) <= CodePoint("Z")
  THEN ASCII[CodePoint(c) + 32 - 31]
  ELSE c

Lower(s) == [i \in 1..Len(s) |-> LowerChar(s[i])]

\* get_export_filename.  The file name is the tuple of the pieces of its
\* f-string.  year.lower() exists for a str only.
get_export_filename(season, year, format_type) ==
  LET season_part == IF season # Str_All THEN Lower(season) ELSE "all_seasons"
  IN  IF NotAll(year) /\ year.t # "str"
      THEN [raised |-> TRUE, exc |-> "AttributeError", value |-> <<>>]
      ELSE LET year_part == IF NotAll(year) THEN Lower(year.s) ELSE "all_years"
           IN  [raised |-> FALSE, exc |-> "",
                value  |-> IF format_type = "csv"
                           THEN <<"agriculture_data_", season_part, "_", year_part, ".csv">>
                           ELSE <<"agriculture_report_", season_part, "_", year_part, ".pdf">>]

PreviewRows == 10

\* DataFrame.head(n): a new frame of the first n rows.
head(frame, n) == SubSeq(frame, 1, IF Len(frame) < n THEN Len(frame) ELSE n)

\* The result of generate_pdf_report when no document is made.
PdfError(message) ==
  [error |-> message, filename |-> <<>>, stats |-> <<>>,
   summary_data |-> <<>>, preview |-> <<>>]

\* The value column of summary_data: the four lines of the summary table.
SummaryData(stats) ==
  <<format_number(FromInt(stats.total_area), NumberDecimals, <<>>) \o <<" Hac">>,
    format_number(FromInt(stats.burned_area), NumberDecimals, <<>>) \o <<" Hac">>,
    format_number(FromInt(stats.difference), NumberDecimals, <<>>) \o <<" Hac">>,
    format_percentage(stats.pct_avg, PercentDecimals)>>

\* generate_pdf_report(frame, season, year) on the loader's table `table`.
\* value: [error, filename, stats, summary_data, preview]: the local `stats`,
\* the summary table and the rows of the preview table; the layout and the
\* bytes of the document are left to ReportLab.
generate_pdf_report(table, frame, season, year) ==
  IF frame = <<>>
  THEN Ok(PdfError("No data to export"), table)
  ELSE LET stats == get_summary_stats(table, season, year)
           name  == get_export_filename(season, year, "pdf")
       IN  IF stats.raised
           THEN Ok(PdfError("PDF generation error"), stats.df)
           ELSE IF name.raised
           THEN Ok(PdfError("PDF generation error"), stats.df)
           ELSE Ok([error |-> "", filename |-> name.value,
                    stats |-> stats.value,
                    summary_data |-> SummaryData(stats.value),
                    preview |-> head(frame, PreviewRows)],
                   stats.df)

NoExport == [link |-> <<>>, status |-> "", display |-> "none"]

ExportFailure(status) == [link |-> <<>>, status |-> status, display |-> "none"]

\* generate_export(n_clicks, format_type, scope, metrics, season, year).
\* Scope "all" works on the loader's own table, the other scopes on the
\* frame filter_data returns.  Every exception is caught by the callback.
\* The link is the file name and what its href holds: the rows of the CSV,
\* or the content of the PDF report.
generate_export(table, n_clicks, format_type, scope, season, year) ==
  LET f     == IF scope = "all" THEN Ok(table, table)
               ELSE filter_data(table, season, year)
      name  == get_export_filename(season, year, format_type)
      pdf   == generate_pdf_report(f.df, f.value, season, year)
  IN  IF ~(n_clicks > 0) THEN Ok(NoExport, table)
      ELSE IF f.raised THEN Ok(ExportFailure("Error generating export"), f.df)
      ELSE IF f.value = <<>> THEN Ok(ExportFailure("No data available for export"), f.df)
      ELSE IF format_type = "csv"
      THEN IF name.raised THEN Ok(ExportFailure("Error generating export"), f.df)
           ELSE Ok([link    |-> [filename |-> name.value, href |-> f.value],
                    status  |-> "CSV export ready for download",
                    display |-> "block"], f.df)
      ELSE IF format_type = "pdf"
      THEN IF name.raised THEN Ok(ExportFailure("Error generating export"), f.df)
           ELSE IF pdf.value.error # "" THEN Ok(ExportFailure("Error"), pdf.df)
           ELSE Ok([link    |-> [filename |-> name.value,
                                 href     |-> [stats        |-> pdf.value.stats,
                                               summary_data |-> pdf.value.summary_data,
                                               preview      |-> pdf.value.preview]],
                    status  |-> "PDF report ready for download",
                    display |-> "block"], pdf.df)
      ELSE Ok(NoExport, f.df)

----------------------------------------------------------------------------
(* Requests *)

\* The season and year selectors a callback can receive.
SeasonSelectors == {Str_All, Str_Rabi, Str_Kharif, Str_Zaid}

YearSelectors ==
  { StrVal(Str_All), IntVal(2020), StrVal(<<"2", "0", "2", "1">>),
    IntVal(2017), StrVal(<<"2", "0", "x", "1">>) }

\* The export controls: the button's click count, the format and scope
\* dropdowns, and the season and year dropdowns of the export tab.
ClickCounts == {0, 1}

ExportFormats == {"csv", "pdf"}

ExportScopes == {"current", "all", "custom"}

ExportSeasons == {Str_All, Str_Rabi}

ExportYears ==
  { StrVal(Str_All), IntVal(2020), StrVal(<<"2", "0", "2", "1">>),
    StrVal(<<"2", "0", "x", "1">>) }

\* The year lists the comparison dropdown can send (its values are str).
Year2020 == StrVal(<<"2", "0", "2", "0">>)

Year2021 == StrVal(<<"2", "0", "2", "1">>)

ComparisonYears ==
  { <<>>, <<StrVal(Str_All)>>, <<Year2021>>, <<StrVal(Str_All), Year2020>>,
    <<Year2020, Year2020>>, <<Year2020, Year2021>>,
    <<Year2021, StrVal(<<"2", "0", "1", "8">>), Year2020>> }

ComparisonSeasons == {Str_All, Str_Rabi, Str_Zaid}

\* The metric dropdown of the forecasting tab, and a value outside it.
ForecastMetrics == {"area", "burned", "pct_diff", "difference"}

\* What the forecasting tab sends to generate_forecast: the metric dropdown
\* (and a value outside it), the periods slider, the model radio, the season.
CallbackMetrics == {"area", "burned", "pct_diff", "difference"}

ForecastPeriods == {1, 3}

ForecastModels == {"exponential", "arima"}

ForecastSeasons == {Str_All, Str_Zaid}

Idle == [op |-> "idle"]

NoResponse == [raised |-> FALSE, exc |-> "", value |-> <<>>]

Reply(call) == [raised |-> call.raised, exc |-> call.exc, value |-> call.value]

Init ==
  /\ df \in { clean_data(raw) : raw \in RawTables }
  /\ request = Idle
  /\ response = NoResponse

FilterData(season, year) ==
  /\ request.op = "idle"
  /\ request' = [op |-> "filter_data", season |-> season, year |-> year]
  /\ response' = Reply(filter_data(df, season, year))
  /\ df' = filter_data(df, season, year).df

GetSummaryStats(season, year) ==
  /\ request.op = "idle"
  /\ request' = [op |-> "get_summary_stats", season |-> season, year |-> year]
  /\ response' = Reply(get_summary_stats(df, season, year))
  /\ df' = get_summary_stats(df, season, year).df

GetTrendData(season) ==
  /\ request.op = "idle"
  /\ request' = [op |-> "get_trend_data", season |-> season]
  /\ response' = Reply(get_trend_data(df, season))
  /\ df' = get_trend_data(df, season).df

GenerateExport(n_clicks, format_type, scope, season, year) ==
  /\ request.op = "idle"
  /\ request' = [op |-> "generate_export", n_clicks |-> n_clicks,
                 format_type |-> format_type, scope |-> scope,
                 season |-> season, year |-> year]
  /\ response' = Reply(generate_export(df, n_clicks, format_type, scope, season, year))
  /\ df' = generate_export(df, n_clicks, format_type, scope, season, year).df

CreateComparisonFigures(season, years) ==
  /\ request.op = "idle"
  /\ request' = [op |-> "create_comparison_figures", season |-> season, years |-> years]
  /\ response' = Reply(create_comparison_figures(df, season, years))
  /\ df' = create_comparison_figures(df, season, years).df

PrepareForecastData(season, metric) ==
  /\ request.op = "idle"
  /\ request' = [op |-> "prepare_forecast_data", season |-> season, metric |-> metric]
  /\ response' = Reply(prepare_forecast_data(df, season, metric))
  /\ df' = prepare_forecast_data(df, season, metric).df

GenerateForecast(n_clicks, metric, periods, model_type, season, lib) ==
  /\ request.op = "idle"
  /\ request' = [op |-> "generate_forecast", n_clicks |-> n_clicks, metric |-> metric,
                 periods |-> periods, model_type |-> model_type, season |-> season,
                 lib |-> lib]
  /\ response' = Reply(generate_forecast(df, n_clicks, metric, periods, model_type,
                                         season, lib))
  /\ df' = generate_forecast(df, n_clicks, metric, periods, model_type, season, lib).df

UpdateDashboard(season, year) ==
  /\ request.op = "idle"
  /\ request' = [op |-> "update_dashboard", season |-> season, year |-> year]
  /\ response' = Reply(update_dashboard(df, season, year))
  /\ df' = update_dashboard(df, season, year).df

\* The catalogs, as the layout and update_comparison_year_options ask for them.
GetSeasons ==
  /\ request.op = "idle"
  /\ request' = [op |-> "get_seasons"]
  /\ response' = Reply(Ok(get_seasons(df), df))
  /\ UNCHANGED df

GetYears ==
  /\ request.op = "idle"
  /\ request' = [op |-> "get_years"]
  /\ response' = Reply(Ok(get_years(df), df))
  /\ UNCHANGED df

\* The callback returns: its result goes to the browser and the server waits
\* for the next request.
Return ==
  /\ request.op # "idle"
  /\ request' = Idle
  /\ response' = NoResponse
  /\ UNCHANGED df

Next ==
  \/ \E s \in SeasonSelectors, y \in YearSelectors : FilterData(s, y)
  \/ \E s \in SeasonSelectors, y \in YearSelectors : GetSummaryStats(s, y)
  \/ \E s \in SeasonSelectors : GetTrendData(s)
  \/ \E n \in ClickCounts, fmt \in ExportFormats, sc \in ExportScopes,
        s \in ExportSeasons, y \in ExportYears : GenerateExport(n, fmt, sc, s, y)
  \/ \E s \in ComparisonSeasons, ys \in ComparisonYears : CreateComparisonFigures(s, ys)
  \/ \E s \in SeasonSelectors, m \in ForecastMetrics : PrepareForecastData(s, m)
  \/ \E n \in ClickCounts, m \in CallbackMetrics, h \in ForecastPeriods,
        mt \in ForecastModels, s \in ForecastSeasons, lib \in LibraryOutcomes :
        GenerateForecast(n, m, h, mt, s, lib)
  \/ \E s \in SeasonSelectors, y \in YearSelectors : UpdateDashboard(s, y)
  \/ GetSeasons
  \/ GetYears
  \/ Return

Spec == Init /\ [][Next]_vars

----------------------------------------------------------------------------
(* Start-up: DataLoader("agri_analysis_punjab_clean.csv") *)

Col_Year == <<"Y", "e", "a", "r">>

Col_Season == <<"S", "e", "a", "s", "o", "n">>

Col_Area ==
  <<"A", "r", "e", "a", " ", "u", "n", "d", "e", "r", " ",
    "P", "r", "o", "d", "u", "c", "t", "i", "o", "n", " ", "(", "H", "a", "c", ")">>

Col_Burned ==
  <<"B", "u", "r", "n", "e", "d", " ", "A", "r", "e", "a", " ", "(", "H", "a", "c", ")">>

Col_Difference ==
  <<"D", "i", "f", "f", "e", "r", "e", "n", "c", "e", " ", "(", "H", "a", "c", ")">>

Col_PctStr == <<"%", " ", "D", "i", "f", "f", "e", "r", "e", "n", "c", "e">>

Col_PctNumeric == Col_PctStr \o <<" ", "N", "u", "m", "e", "r", "i", "c">>

\* The record field that stands for a column name, and back.
Fields == {"Year", "Season", "Area", "Burned", "Difference", "PctStr", "PctNumeric"}

ColumnOf(f) ==
  CASE f = "Year"       -> Col_Year
    [] f = "Season"     -> Col_Season
    [] f = "Area"       -> Col_Area
    [] f = "Burned"     -> Col_Burned
    [] f = "Difference" -> Col_Difference
    [] f = "PctStr"     -> Col_PctStr
    [] f = "PctNumeric" -> Col_PctNumeric

\* The dataset the module has while, or when, no data_loader is bound.
NoDataset == <<>>

\* The position of the column called name, or 0.
ColumnIndex(columns, name) ==
  IF \E i \in 1..Len(columns) : columns[i] = name
  THEN CHOOSE i \in 1..Len(columns) :
         columns[i] = name /\ \A j \in 1..(i - 1) : columns[j] # name
  ELSE 0

\* df[name] = cells of the given dtype, na[r] telling the missing ones: the
\* column is replaced, or added at the end.  holds tells what the cells of a
\* column that are not missing are: it is the dtype, but for an object
\* column, whose cells are text ("str") or booleans ("bool").
SetColumn(frame, name, dtype, cells, na) ==
  LET i == ColumnIndex(frame.columns, name)
      n == Len(frame.rows)
  IN  IF i = 0
      THEN [columns |-> Append(frame.columns, name),
            dtypes  |-> Append(frame.dtypes, dtype),
            holds   |-> Append(frame.holds, dtype),
            rows    |-> [r \in 1..n |-> Append(frame.rows[r], cells[r])],
            na      |-> [r \in 1..n |-> Append(frame.na[r], na[r])]]
      ELSE [columns |-> frame.columns,
            dtypes  |-> [frame.dtypes EXCEPT ![i] = dtype],
            holds   |-> [frame.holds EXCEPT ![i] = dtype],
            rows    |-> [r \in 1..n |-> [frame.rows[r] EXCEPT ![i] = cells[r]]],
            na      |-> [r \in 1..n |-> [frame.na[r] EXCEPT ![i] = na[r]]]]

\* The frame as the sequence of its rows, one field per column it has.
Records(frame) ==
  LET present == { f \in Fields : ColumnIndex(frame.columns, ColumnOf(f)) # 0 }
  IN  [r \in 1..Len(frame.rows) |->
        [f \in present |-> frame.rows[r][ColumnIndex(frame.columns, ColumnOf(f))]]]

\* A file is text: headers and, per row, one cell of text per column.
\* read_csv reads a cell that is one of its default NA markers as a missing
\* value, NaN.  Of the cells that are left, whole numerals make an int column
\* (a float one when a value is missing), decimal numerals a float column,
\* TRUE and FALSE in any case a bool column (an object one, of booleans and
\* NaN, when a value is missing), and anything else leaves the column as
\* object: str cells, NaN where missing.  A column without cells is object.
\* The numerals are [sign] digits [. digits]; exponents and the like are
\* outside the files modelled.
NAMarkers ==
  { <<>>,
    <<"#", "N", "/", "A">>,
    <<"#", "N", "/", "A", " ", "N", "/", "A">>,
    <<"#", "N", "A">>,
    <<"-", "1", ".", "#", "I", "N", "D">>,
    <<"-", "1", ".", "#", "Q", "N", "A", "N">>,
    <<"-", "N", "a", "N">>,
    <<"-", "n", "a", "n">>,
    <<"1", ".", "#", "I", "N", "D">>,
    <<"1", ".", "#", "Q", "N", "A", "N">>,
    <<"<", "N", "A", ">">>,
    <<"N", "/", "A">>,
    <<"N", "A">>,
    <<"N", "U", "L", "L">>,
    <<"N", "a", "N">>,
    <<"N", "o", "n", "e">>,
    <<"n", "/", "a">>,
    <<"n", "a", "n">>,
    <<"n", "u", "l", "l">> }

IsNA(s) == s \in NAMarkers

\* The tokenizer's numeric conversions skip blanks before and after the
\* numeral; the test for a missing value is on the cell's text as it stands.
IsIntText(s) ==
  LET t == Strip(s) IN Unsigned(t) # <<>> /\ AllDigits(Unsigned(t))

IsFloatText(s) == s = NoUnderscores(s) /\ ~PyFloat(s).raised

\* to_boolean of the tokenizer: "true" or "false", whatever the case, and
\* no blanks around it.
Str_True == <<"T", "r", "u", "e">>

Str_False == <<"F", "a", "l", "s", "e">>

IsBoolText(s) == Lower(s) \in {Lower(Str_True), Lower(Str_False)}

ColumnText(file, i) == [r \in 1..Len(file.rows) |-> file.rows[r][i]]

\* The conversion that takes every cell of the column that is not missing:
\* int64, float64 and bool are tried in this order, and text is what is left.
CellKind(cells) ==
  LET present == SelectSeq(cells, LAMBDA s : ~IsNA(s))
  IN  IF cells = <<>> THEN "str"
      ELSE IF \A r \in 1..Len(present) : IsIntText(present[r]) THEN "int"
      ELSE IF \A r \in 1..Len(present) : IsFloatText(present[r]) THEN "float"
      ELSE IF \A r \in 1..Len(present) : IsBoolText(present[r]) THEN "bool"
      ELSE "str"

\* The dtype of the column: a missing value makes an int column float and a
\* bool column object.
InferDtype(cells) ==
  LET kind    == CellKind(cells)
      missing == \E r \in 1..Len(cells) : IsNA(cells[r])
  IN  CASE kind = "int"  /\ missing -> "float"
        [] kind = "bool" /\ missing -> "str"
        [] OTHER                    -> kind

\* The cell of a column whose cells are of the given kind.
ReadCell(kind, s) ==
  IF IsNA(s) THEN NaN
  ELSE CASE kind = "int"   -> PyInt(StrVal(s)).value
         [] kind = "float" -> PyFloat(s).value
         [] kind = "bool"  -> Lower(s) = Lower(Str_True)
         [] OTHER          -> s

\* pd.read_csv(self.file_path): the frame, with na[r][i] telling the cells
\* that are missing.  A file without a header line has no columns to parse.
read_csv(file) ==
  IF ~file.exists THEN Raise("FileNotFoundError", NoDataset)
  ELSE IF file.headers = <<>> THEN Raise("EmptyDataError", NoDataset)
  ELSE LET dtypes == [i \in 1..Len(file.headers) |-> InferDtype(ColumnText(file, i))]
           kinds  == [i \in 1..Len(file.headers) |-> CellKind(ColumnText(file, i))]
       IN  Ok([columns |-> file.headers,
               dtypes  |-> dtypes,
               holds   |-> [i \in 1..Len(file.headers) |->
                              IF dtypes[i] = "str" THEN kinds[i] ELSE dtypes[i]],
               rows    |-> [r \in 1..Len(file.rows) |->
                              [i \in 1..Len(file.headers) |->
                                 ReadCell(IF dtypes[i] = "str" THEN kinds[i] ELSE dtypes[i],
                                          file.rows[r][i])]],
               na      |-> [r \in 1..Len(file.rows) |->
                              [i \in 1..Len(file.headers) |-> IsNA(file.rows[r][i])]]],
              NoDataset)

\* One cell through astype(int): an int stays, a float is truncated, a
\* boolean is 1 or 0, a str goes through int(); a missing value cannot be
\* converted.
AsInt(kind, cell, na) ==
  IF na THEN [raised |-> TRUE, value |-> 0]
  ELSE CASE kind = "int"   -> [raised |-> FALSE, value |-> cell]
         [] kind = "float" -> [raised |-> FALSE,
                               value  |-> IF cell[1] < 0 THEN -((-cell[1]) \div cell[2])
                                          ELSE cell[1] \div cell[2]]
         [] kind = "bool"  -> [raised |-> FALSE, value |-> IF cell THEN 1 ELSE 0]
         [] OTHER          -> PyInt(StrVal(cell))

\* One cell through  .astype(str).str.replace("%", "").astype(float).  The
\* text of a number reads back as that number, and a missing value, "nan" as
\* text, as NaN; a boolean is "True" or "False" as text, which is no number.
AsPct(kind, cell, na) ==
  IF na THEN [raised |-> FALSE, value |-> NaN]
  ELSE CASE kind = "int"   -> PyFloat(ReplacePercent(IntToStr(cell)))
         [] kind = "float" -> [raised |-> FALSE, value |-> cell]
         [] kind = "bool"  -> PyFloat(ReplacePercent(IF cell THEN Str_True ELSE Str_False))
         [] OTHER          -> PyFloat(ReplacePercent(cell))

StripNames(frame) ==
  [frame EXCEPT !.columns = [i \in 1..Len(frame.columns) |-> Strip(frame.columns[i])]]

\* _clean_data that derives the numeric percentage whether or not the file
\* already carries one.
clean_data_always_derives(frame) ==
  LET named  == StripNames(frame)
      yi     == ColumnIndex(named.columns, Col_Year)
      years  == [r \in 1..Len(named.rows) |->
                   AsInt(named.holds[yi], named.rows[r][yi], named.na[r][yi])]
      typed  == SetColumn(named, Col_Year, "int",
                          [r \in 1..Len(named.rows) |-> years[r].value],
                          [r \in 1..Len(named.rows) |-> FALSE])
      pi     == ColumnIndex(typed.columns, Col_PctStr)
      parsed == [r \in 1..Len(typed.rows) |->
                   AsPct(typed.holds[pi], typed.rows[r][pi], typed.na[r][pi])]
  IN  IF yi = 0 THEN Raise("KeyError", NoDataset)
      ELSE IF \E r \in 1..Len(named.rows) : years[r].raised
      THEN Raise("ValueError", NoDataset)
      ELSE IF pi = 0 THEN Raise("KeyError", NoDataset)
      ELSE IF \E r \in 1..Len(typed.rows) : parsed[r].raised
      THEN Raise("ValueError", NoDataset)
      ELSE Ok(<<>>, Records(SetColumn(typed, Col_PctNumeric, "float",
                              [r \in 1..Len(typed.rows) |-> parsed[r].value],
                              [r \in 1..Len(typed.rows) |-> IsNaN(parsed[r].value)])))

\* _clean_data on the frame read: column names stripped, Year through
\* astype(int), and "% Difference Numeric" derived from "% Difference" only
\* when the frame has no such column.  The call's df is self.df as built.
clean_frame(frame) ==
  LET named  == StripNames(frame)
      yi     == ColumnIndex(named.columns, Col_Year)
      years  == [r \in 1..Len(named.rows) |->
                   AsInt(named.holds[yi], named.rows[r][yi], named.na[r][yi])]
      typed  == SetColumn(named, Col_Year, "int",
                          [r \in 1..Len(named.rows) |-> years[r].value],
                          [r \in 1..Len(named.rows) |-> FALSE])
      pi     == ColumnIndex(typed.columns, Col_PctStr)
      parsed == [r \in 1..Len(typed.rows) |->
                   AsPct(typed.holds[pi], typed.rows[r][pi], typed.na[r][pi])]
  IN  IF yi = 0 THEN Raise("KeyError", NoDataset)
      ELSE IF \E r \in 1..Len(named.rows) : years[r].raised
      THEN Raise("ValueError", NoDataset)
      ELSE IF ColumnIndex(typed.columns, Col_PctNumeric) # 0
      THEN Ok(<<>>, Records(typed))
      ELSE IF pi = 0 THEN Raise("KeyError", NoDataset)
      ELSE IF \E r \in 1..Len(typed.rows) : parsed[r].raised
      THEN Raise("ValueError", NoDataset)
      ELSE Ok(<<>>, Records(SetColumn(typed, Col_PctNumeric, "float",
                              [r \in 1..Len(typed.rows) |-> parsed[r].value],
                              [r \in 1..Len(typed.rows) |-> IsNaN(parsed[r].value)])))

\* _load_data: read, clean; any exception is logged and raised again.
load_data(file) ==
  LET read == read_csv(file)
  IN  IF read.raised THEN read ELSE clean_frame(read.value)

\* The files.  A well-formed file of the rows of a table:
MaxFileRows == 2

FileTables == { t \in RawTables : Len(t) <= MaxFileRows }

FileOf(t) ==
  [exists  |-> TRUE,
   headers |-> <<Col_Year, Col_Season, Col_Area, Col_Burned, Col_Difference, Col_PctStr>>,
   rows    |-> [i \in 1..Len(t) |->
                 <<IntToStr(t[i].Year), t[i].Season, IntToStr(t[i].Area),
                   IntToStr(t[i].Burned), IntToStr(t[i].Difference), t[i].PctStr>>]]

\* and what can be wrong, or merely different, about it.
Absent(file) == [file EXCEPT !.exists = FALSE]

\* A file without a line, the header line included.
NoLines(file) == [file EXCEPT !.headers = <<>>, !.rows = <<>>]

Without(seq, i) == SubSeq(seq, 1, i - 1) \o SubSeq(seq, i + 1, Len(seq))

WithoutColumn(file, name) ==
  LET i == ColumnIndex(file.headers, name)
  IN  [file EXCEPT !.headers = Without(@, i),
                   !.rows    = [r \in 1..Len(@) |-> Without(@[r], i)]]

SpacedHeaders(file) ==
  [file EXCEPT !.headers = [i \in 1..Len(@) |-> <<" ">> \o @[i] \o <<" ", " ">>]]

\* The cell of the first row under name replaced (nothing on an empty file).
WithFirstCell(file, name, text) ==
  LET i == ColumnIndex(file.headers, name)
  IN  IF file.rows = <<>> THEN file
      ELSE [file EXCEPT !.rows[1][i] = text]

\* Text that is no number, and a marker of a missing value.
NotANumber == <<"a", "b", "c">>

Missing == <<"n", "/", "a">>

NotAYear == <<"2", "0", "x", "1">>

\* A number written with blanks around it.
PaddedNumber == <<" ", "7", " ">>

\* A file that already carries the numeric percentage.
CarriedPctText == <<"9", "9", ".", "5">>

WithNumeric(file) ==
  [file EXCEPT !.headers = Append(@, Col_PctNumeric),
               !.rows    = [r \in 1..Len(@) |-> Append(@[r], CarriedPctText)]]

FileVariants(file) ==
  { file, Absent(file), NoLines(file), SpacedHeaders(file),
    WithNumeric(file), WithoutColumn(WithNumeric(file), Col_PctStr),
    WithFirstCell(WithNumeric(file), Col_PctStr, NotANumber),
    WithFirstCell(file, Col_Year, NotAYear),
    WithFirstCell(file, Col_Year, Missing),
    WithFirstCell(file, Col_Year, Str_True),
    WithFirstCell(file, Col_PctStr, NotANumber),
    WithFirstCell(file, Col_PctStr, Missing),
    WithFirstCell(file, Col_Area, Missing),
    WithFirstCell(file, Col_Area, NotANumber),
    WithFirstCell(file, Col_Area, PaddedNumber),
    WithFirstCell(file, Col_Burned, NotANumber),
    WithFirstCell(file, Col_Difference, NotANumber) }
  \cup { WithoutColumn(file, ColumnOf(f)) : f \in Fields \ {"PctNumeric"} }

SourceFiles == UNION { FileVariants(FileOf(t)) : t \in FileTables }

\* The state before the module-level  data_loader = DataLoader(...)  runs.
LoadInit ==
  /\ df = NoDataset
  /\ request = [op |-> "start"]
  /\ response = NoResponse

\* data_loader = DataLoader(file): __init__ calls _load_data.
LoadData(file) ==
  /\ request.op = "start"
  /\ LET call == load_data(file)
     IN  /\ df' = call.df
         /\ response' = Reply(call)
  /\ request' = [op |-> "load_data", file |-> file]

LoadNext == \E file \in SourceFiles : LoadData(file)

LoadSpec == LoadInit /\ [][LoadNext]_vars

----------------------------------------------------------------------------
(* Concurrent requests: callbacks served on several threads, one loader *)

Workers == {"w1", "w2"}

\* One call of a callback on the loader (or, for a forecast, on the
\* Forecasting component that reads the loader).  after_raise is the number
\* of the callback's following calls an exception of this one skips; due
\* tells whether the call is made whenever control reaches it ("always") or
\* only when the comparison built so far is populated ("populated").
LoaderCall(fn, season, year, metric, after_raise, due) ==
  [fn |-> fn, season |-> season, year |-> year, metric |-> metric,
   after_raise |-> after_raise, due |-> due]

\* The call, on the loader's table as it is when the call is made.  Each of
\* these reads self.df once, in filter_data's  self.df.copy().
Exec(table, call) ==
  CASE call.fn = "filter_data" ->
         filter_data(table, call.season, call.year)
    [] call.fn = "get_summary_stats" ->
         get_summary_stats(table, call.season, call.year)
    [] call.fn = "get_trend_data" ->
         get_trend_data(table, call.season)
    [] call.fn = "prepare_forecast_data" ->
         prepare_forecast_data(table, call.season, call.metric)

\* The loop of create_comparison_figures as the calls it makes: for each year
\* other than "All", filter_data, get_summary_stats, get_trend_data, inside
\* one try block.
RECURSIVE ComparisonCalls(_, _)
ComparisonCalls(season, years) ==
  IF years = <<>> THEN <<>>
  ELSE (IF NotAll(Head(years))
        THEN << LoaderCall("filter_data", season, Head(years), "", 2, "always"),
                LoaderCall("get_summary_stats", season, Head(years), "", 1, "always"),
                LoaderCall("get_trend_data", season, Head(years), "", 0, "always") >>
        ELSE <<>>)
       \o ComparisonCalls(season, Tail(years))

\* The requests: the callback, its arguments, and the calls that serve it.

\* update_dashboard(season, year): three calls in a row, not guarded, so
\* that an exception of one ends the callback.
DashboardRequest(season, year) ==
  [op |-> "dashboard", season |-> season, years |-> <<year>>,
   calls |-> << LoaderCall("filter_data", season, year, "", 2, "always"),
                LoaderCall("get_summary_stats", season, year, "", 1, "always"),
                LoaderCall("get_trend_data", season, StrVal(Str_All), "", 0, "always") >>]

\* update_trend_analysis(n_clicks > 0, season): create_trend_figure reads
\* the season's rows of every year.
TrendAnalysisRequest(season) ==
  [op |-> "trend_analysis", season |-> season, years |-> <<>>,
   calls |-> << LoaderCall("filter_data", season, StrVal(Str_All), "", 0, "always") >>]

\* update_comparison_charts(season, years): create_comparison_figures makes
\* no call on a selection it refuses; else it runs the loop and then, for
\* the trend chart of a populated comparison, reads the season's trend.
ComparisonRequest(season, years) ==
  [op |-> "comparison", season |-> season, years |-> years,
   calls |->
     IF years = <<>> \/ years = <<StrVal(Str_All)>> \/ Len(years) < MinComparisonYears
     THEN <<>>
     ELSE ComparisonCalls(season, years)
          \o << LoaderCall("get_trend_data", season, StrVal(Str_All), "", 0, "populated") >>]

\* generate_forecast(n_clicks > 0, season, metric).
ForecastRequest(season, metric) ==
  [op |-> "forecast", season |-> season, years |-> <<>>,
   calls |-> << LoaderCall("prepare_forecast_data", season, StrVal(Str_All), metric, 0, "always") >>]

ConcurrentRequests ==
  { DashboardRequest(Str_All, IntVal(2020)),
    DashboardRequest(Str_Kharif, StrVal(Str_All)),
    DashboardRequest(Str_Kharif, StrVal(NotAYear)),
    TrendAnalysisRequest(Str_Kharif),
    ComparisonRequest(Str_All, <<Year2020, Year2021>>),
    ComparisonRequest(Str_Kharif, <<StrVal(NotAYear), StrVal(Str_All), Year2021>>),
    ComparisonRequest(Str_Kharif, <<Year2020>>),
    ForecastRequest(Str_All, "area"),
    ForecastRequest(Str_Kharif, "pct_diff") }

\* A worker's progress: the call it is to make next and the results so far,
\* each with the place of its call among the callback's calls.
NotStarted == [pc |-> 1, replies |-> <<>>]

\* The comparison the loop has built, read off the results: a year enters it
\* when the last call of its try block returns.  It is populated when it has
\* MinComparisonYears years and some trend of it has a year.
Populated(calls, replies) ==
  LET entries == { i \in 1..Len(replies) :
                     /\ calls[replies[i].at].fn = "get_trend_data"
                     /\ calls[replies[i].at].due = "always"
                     /\ ~replies[i].raised }
  IN  /\ Cardinality({ calls[replies[i].at].year : i \in entries }) >= MinComparisonYears
      /\ \E i \in entries : replies[i].value # <<>>

\* The place of the next call to make, from place n on.
NextDue(calls, replies, n) ==
  IF n <= Len(calls) /\ calls[n].due = "populated" /\ ~Populated(calls, replies)
  THEN n + 1
  ELSE n

Start(calls) == [pc |-> NextDue(calls, <<>>, 1), replies |-> <<>>]

\* The next call of a callback, made on table.
Advance(table, calls, run) ==
  LET todo    == calls[run.pc]
      call    == Exec(table, todo)
      replies == Append(run.replies,
                        [at |-> run.pc, raised |-> call.raised,
                         exc |-> call.exc, value |-> call.value])
  IN  [df  |-> call.df,
       run |-> [pc      |-> NextDue(calls, replies,
                                run.pc + 1 + (IF call.raised THEN todo.after_raise ELSE 0)),
                replies |-> replies]]

\* The loader is built; no request is being served.  request.dataset keeps
\* the table as loaded.
ConcInit ==
  /\ df \in { clean_data(t) : t \in FileTables }
  /\ request = [dataset |-> df, of |-> [w \in Workers |-> Idle]]
  /\ response = [w \in Workers |-> NotStarted]

\* A callback starts on worker w.
Begin(w, req) ==
  /\ request.of[w].op = "idle"
  /\ request' = [request EXCEPT !.of[w] = req]
  /\ response' = [response EXCEPT ![w] = Start(req.calls)]
  /\ UNCHANGED df

\* Worker w makes its next call.
Step(w) ==
  /\ request.of[w].op # "idle"
  /\ response[w].pc <= Len(request.of[w].calls)
  /\ LET next == Advance(df, request.of[w].calls, response[w])
     IN  /\ df' = next.df
         /\ response' = [response EXCEPT ![w] = next.run]
  /\ UNCHANGED request

\* The callback of worker w returns.
Respond(w) ==
  /\ request.of[w].op # "idle"
  /\ response[w].pc > Len(request.of[w].calls)
  /\ request' = [request EXCEPT !.of[w] = Idle]
  /\ response' = [response EXCEPT ![w] = NotStarted]
  /\ UNCHANGED df

ConcNext ==
  \E w \in Workers :
    \/ \E req \in ConcurrentRequests : Begin(w, req)
    \/ Step(w)
    \/ Respond(w)

ConcSpec == ConcInit /\ [][ConcNext]_vars

----------------------------------------------------------------------------
(* Properties *)

\* A year selector int() accepts: "All", an int, or a decimal numeral.
WellFormedYear(y) == ~NotAll(y) \/ ~PyInt(y).raised

\* The filter predicate, on one record.
Matches(r, s, y) ==
  /\ s = Str_All \/ r.Season = s
  /\ ~NotAll(y) \/ r.Year = PyInt(y).value

\* The positions of the loader's table that hold a matching record.
MatchIdx(s, y) == { i \in 1..Len(df) : Matches(df[i], s, y) }

Rows(view) == { view[i] : i \in 1..Len(view) }

RECURSIVE SumOver(_, _)
SumOver(I, col) ==
  IF I = {} THEN 0
  ELSE LET i == CHOOSE j \in I : TRUE IN df[i][col] + SumOver(I \ {i}, col)

RECURSIVE PctSumOver(_)
PctSumOver(I) ==
  IF I = {} THEN FromInt(0)
  ELSE LET i == CHOOSE j \in I : TRUE IN RatAdd(df[i].PctNumeric, PctSumOver(I \ {i}))

\* q is the arithmetic mean of the percentages at the positions I.
IsMeanOver(q, I) ==
  IF I = {} THEN IsNaN(q)
  ELSE ~IsNaN(q) /\ Rat(q[1] * Cardinality(I), q[2]) = PctSumOver(I)

RoundTripTable ==
  clean_data(<<RawRow(2020, Str_Rabi, 100, 10,  90, <<"1", "0", "%">>),
               RawRow(2021, Str_Rabi, 120, 15, 105, <<"1", "2", ".", "5", "%">>)>>)

\* C1: filter_data(s, y) returns exactly the records of the Dataset with
\* (s = "All" or season = s) and (y = "All" or year = int(y)): none missing,
\* none extra, each once.
C1_FilterExact ==
  (request.op = "filter_data" /\ WellFormedYear(request.year)) =>
    /\ ~response.raised
    /\ Rows(response.value) = { df[i] : i \in MatchIdx(request.season, request.year) }
    /\ Len(response.value) = Cardinality(MatchIdx(request.season, request.year))

C1_Witness ==
  /\ request.op = "filter_data"
  /\ request.season = Str_Rabi
  /\ request.year = StrVal(<<"2", "0", "2", "1">>)
  /\ Len(df) = 4
  /\ Len(response.value) = 1
  /\ response.value[1].Area = 120

\* C2: get_summary_stats returns the sums of the three hectare columns and
\* the arithmetic mean of the numeric percentage over the filtered View; on
\* the two Rabi rows of the round-trip scenario that is 220, 25, 195, 11.25.
C2_SummaryStats ==
  /\ (request.op = "get_summary_stats" /\ WellFormedYear(request.year)) =>
       LET I == MatchIdx(request.season, request.year)
       IN  /\ ~response.raised
           /\ response.value.total_area = SumOver(I, "Area")
           /\ response.value.burned_area = SumOver(I, "Burned")
           /\ response.value.difference = SumOver(I, "Difference")
           /\ IsMeanOver(response.value.pct_avg, I)
  /\ (/\ request.op = "get_summary_stats"
      /\ df = RoundTripTable
      /\ request.season = Str_Rabi
      /\ request.year = StrVal(Str_All)) =>
       response.value = [total_area |-> 220, burned_area |-> 25,
                         difference |-> 195, pct_avg |-> <<45, 4>>]

C2_Witness ==
  /\ request.op = "get_summary_stats"
  /\ df = RoundTripTable
  /\ request.season = Str_Rabi
  /\ request.year = StrVal(Str_All)
  /\ response.value.pct_avg = <<45, 4>>

\* C3: when no record matches, get_summary_stats does not raise and returns
\* the totals 0 with an undefined (NaN) average, not 0.
C3_EmptySummary ==
  (/\ request.op = "get_summary_stats"
   /\ WellFormedYear(request.year)
   /\ MatchIdx(request.season, request.year) = {}) =>
    /\ ~response.raised
    /\ response.value.total_area = 0
    /\ response.value.burned_area = 0
    /\ response.value.difference = 0
    /\ IsNaN(response.value.pct_avg)
    /\ response.value.pct_avg # FromInt(0)

C3_Witness ==
  /\ request.op = "get_summary_stats"
  /\ request.season = Str_Kharif
  /\ request.year = IntVal(2017)
  /\ \E i \in 1..Len(df) : df[i].Season = Str_Kharif
  /\ ~response.raised
  /\ IsNaN(response.value.pct_avg)

\* The sum of one total of get_summary_stats(s, "All") over the seasons ss.
RECURSIVE SeasonTotal(_, _)
SeasonTotal(ss, field) ==
  IF ss = <<>> THEN 0
  ELSE get_summary_stats(df, Head(ss), StrVal(Str_All)).value[field]
         + SeasonTotal(Tail(ss), field)

\* C4: each total of get_summary_stats("All", "All") is the sum of that
\* total of get_summary_stats(s, "All") over the concrete seasons of
\* get_seasons().
C4_SeasonAdditivity ==
  (/\ request.op = "get_summary_stats"
   /\ request.season = Str_All
   /\ request.year = StrVal(Str_All)) =>
    /\ ~response.raised
    /\ \A field \in {"total_area", "burned_area", "difference"} :
         response.value[field] = SeasonTotal(Tail(get_seasons(df)), field)

C4_Witness ==
  /\ request.op = "get_summary_stats"
  /\ request.season = Str_All
  /\ request.year = StrVal(Str_All)
  /\ get_seasons(df) = <<Str_All, Str_Kharif, Str_Rabi>>
  /\ Len(df) = 4
  /\ response.value.total_area
       > get_summary_stats(df, Str_Kharif, StrVal(Str_All)).value.total_area

\* C5: filtering the View filter_data returned, with the same selectors,
\* gives the same rows.
C5_FilterIdempotent ==
  (request.op = "filter_data" /\ ~response.raised) =>
    /\ ~filter_data(response.value, request.season, request.year).raised
    /\ filter_data(response.value, request.season, request.year).value = response.value

C5_Witness ==
  /\ request.op = "filter_data"
  /\ request.season = Str_Kharif
  /\ request.year = IntVal(2020)
  /\ Len(df) >= 3
  /\ Len(response.value) = 1

\* C6: a concrete season and/or year that no record matches gives an empty
\* View, without an exception.
C6_EmptyView ==
  (/\ request.op = "filter_data"
   /\ WellFormedYear(request.year)
   /\ request.season # Str_All \/ NotAll(request.year)
   /\ MatchIdx(request.season, request.year) = {}) =>
    (~response.raised /\ response.value = <<>>)

C6_Witness ==
  /\ request.op = "filter_data"
  /\ request.season = Str_Zaid
  /\ request.year = IntVal(2020)
  /\ \E i \in 1..Len(df) : df[i].Year = 2020
  /\ ~response.raised
  /\ response.value = <<>>

\* C7: no request changes the loader's table: in every step the table is
\* what it was, also in an export with scope "all".
C7_DatasetUnchanged == [][df' = df]_vars

C7_Witness ==
  /\ request.op = "generate_export"
  /\ request.scope = "all"
  /\ request.format_type = "pdf"
  /\ request.n_clicks > 0
  /\ response.value.display = "block"
  /\ Len(df) = 4

\* C8: the rows of get_trend_data are strictly ascending by Year, so no
\* Year comes twice.
C8_TrendSorted ==
  request.op = "get_trend_data" =>
    /\ ~response.raised
    /\ \A i, j \in 1..Len(response.value) :
         i < j => response.value[i].Year < response.value[j].Year

C8_Witness ==
  /\ request.op = "get_trend_data"
  /\ request.season = Str_All
  /\ Len(df) = 4
  /\ df[1].Year > df[2].Year
  /\ df[2].Year = df[3].Year
  /\ Len(response.value) = 3

\* C9: RollingAvgPct at row i is the mean of Pct over rows max(first, i-2)..i,
\* a window of 1, 2, then always 3 rows, defined from the first row on; for
\* Pct 10, 20, 30, 40 it is 10, 15, 20, 30.
C9_RollingAverage ==
  request.op = "get_trend_data" =>
    /\ ~response.raised
    /\ \A i \in 1..Len(response.value) :
         LET lo == IF i - 2 < 1 THEN 1 ELSE i - 2
             q  == response.value[i].RollingAvgPct
         IN  /\ ~IsNaN(q)
             /\ Rat(q[1] * (i - lo + 1), q[2])
                  = RatSum(SubSeq(Column(response.value, "Pct"), lo, i))
    /\ Column(response.value, "Pct")
          = <<FromInt(10), FromInt(20), FromInt(30), FromInt(40)>>
        => Column(response.value, "RollingAvgPct")
             = <<FromInt(10), FromInt(15), FromInt(20), FromInt(30)>>

C9_Witness ==
  /\ request.op = "get_trend_data"
  /\ Column(response.value, "Year") = <<2018, 2019, 2020, 2021>>
  /\ Column(response.value, "Pct")
       = <<FromInt(10), FromInt(20), FromInt(30), FromInt(40)>>
  /\ Column(response.value, "RollingAvgPct")
       = <<FromInt(10), FromInt(15), FromInt(20), FromInt(30)>>

\* C10: get_trend_data(season) has one row per distinct year of the records
\* of the season; its Area is the sum of their area under production and its
\* Pct the arithmetic mean of their numeric percentage.
C10_TrendAggregation ==
  request.op = "get_trend_data" =>
    LET I     == MatchIdx(request.season, StrVal(Str_All))
        years == { df[i].Year : i \in I }
    IN  /\ ~response.raised
        /\ { response.value[k].Year : k \in 1..Len(response.value) } = years
        /\ Len(response.value) = Cardinality(years)
        /\ \A k \in 1..Len(response.value) :
             LET J == { i \in I : df[i].Year = response.value[k].Year }
             IN  /\ response.value[k].Area = SumOver(J, "Area")
                 /\ IsMeanOver(response.value[k].Pct, J)

C10_Witness ==
  /\ request.op = "get_trend_data"
  /\ request.season = Str_All
  /\ Len(df) = 4
  /\ \E k \in 1..Len(response.value) :
       /\ response.value[k].Year = 2020
       /\ response.value[k].Area = 280
       /\ response.value[k].Pct = FromInt(20)

\* C11: for a season selector that matches no record, get_trend_data returns
\* a trend series with zero rows and does not raise.
C11_EmptyTrend ==
  (request.op = "get_trend_data" /\ MatchIdx(request.season, StrVal(Str_All)) = {})
    => (~response.raised /\ response.value = <<>>)

\* A trend request for a season none of the four records of the table has.
C11_Witness ==
  /\ request.op = "get_trend_data"
  /\ request.season = Str_Zaid
  /\ Len(df) = MaxRows
  /\ ~response.raised
  /\ Len(response.value) = 0

\* The concrete entries of a year selection: those that are not "All".
ConcreteYears(years) == { years[i] : i \in { j \in 1..Len(years) : NotAll(years[j]) } }

\* C12: create_comparison_figures returns the insufficient-selection
\* placeholder, without raising, whenever the selection has fewer than two
\* distinct concrete (non-"All") entries: the empty selection, one year,
\* ["All"], "All" with one year.
C12_InsufficientSelection ==
  (/\ request.op = "create_comparison_figures"
   /\ Cardinality(ConcreteYears(request.years)) < 2) =>
     (~response.raised /\ response.value = EmptyComparison)

\* "All" with one year gets past the check on the selection; the year has
\* records, and the placeholder still comes back.
C12_Witness ==
  /\ request.op = "create_comparison_figures"
  /\ request.years = <<StrVal(Str_All), Year2020>>
  /\ request.season = Str_All
  /\ MatchIdx(Str_All, Year2020) # {}
  /\ response.value = EmptyComparison

\* C13: for every season selector and two distinct concrete years y1, y2,
\* create_comparison_figures(season, [y1, y2]) builds a populated comparison,
\* not the placeholder, holding the summary stats of filter(season, y1) under
\* y1 and those of filter(season, y2) under y2.
C13_PopulatedComparison ==
  (/\ request.op = "create_comparison_figures"
   /\ Len(request.years) = 2
   /\ Cardinality(ConcreteYears(request.years)) = 2
   /\ \A i \in 1..2 : WellFormedYear(request.years[i])) =>
     /\ ~response.raised
     /\ ~response.value.placeholder
     /\ Len(response.value.comparison_data) = 2
     /\ \A k \in 1..2 :
          LET entry == response.value.comparison_data[k]
              I     == MatchIdx(request.season, request.years[k])
          IN  /\ entry.year = request.years[k]
              /\ entry.stats.total_area = SumOver(I, "Area")
              /\ entry.stats.burned_area = SumOver(I, "Burned")
              /\ entry.stats.difference = SumOver(I, "Difference")
              /\ IsMeanOver(entry.stats.pct_avg, I)

\* Rabi of 2020 against Rabi of 2021 on a table that has Kharif records too.
C13_Witness ==
  /\ request.op = "create_comparison_figures"
  /\ request.season = Str_Rabi
  /\ request.years = <<Year2020, Year2021>>
  /\ \E i \in 1..Len(df) : df[i].Season = Str_Kharif
  /\ ~response.value.placeholder
  /\ response.value.comparison_data[1].stats.total_area = 100
  /\ response.value.comparison_data[2].stats.total_area = 120

\* C14: in a populated comparison the trend data stored for every requested
\* year is the whole-season trend series get_trend_data(season): the same
\* for all requested years, one row for each year of the season's records,
\* not the requested year only.
C14_WholeSeasonTrend ==
  (request.op = "create_comparison_figures" /\ ~response.value.placeholder) =>
     \A k \in 1..Len(response.value.comparison_data) :
        LET trend == response.value.comparison_data[k].trend_data
        IN  /\ trend = get_trend_data(df, request.season).value
            /\ trend = response.value.comparison_data[1].trend_data
            /\ { trend[i].Year : i \in 1..Len(trend) }
                 = { df[i].Year : i \in MatchIdx(request.season, StrVal(Str_All)) }

\* Two years compared over a season whose records span three years or more.
C14_Witness ==
  /\ request.op = "create_comparison_figures"
  /\ request.years = <<Year2020, Year2021>>
  /\ ~response.value.placeholder
  /\ Len(response.value.comparison_data) = 2
  /\ Len(response.value.comparison_data[1].trend_data) >= 3
  /\ response.value.comparison_data[2].trend_data
       = response.value.comparison_data[1].trend_data

\* The years of the records of the requested season: the years of the
\* series prepare_forecast_data hands to the forecaster.
SeasonYears == { df[i].Year : i \in MatchIdx(request.season, StrVal(Str_All)) }

ValidMetrics == {"area", "burned", "pct_diff"}

\* C15: for every season selector and every metric of {area, burned,
\* pct_diff}, prepare_forecast_data returns one (Year, Value) row per
\* distinct year of the season's records, in ascending year order; Value is
\* the sum of the area under production for area, the sum of the burned area
\* for burned, the mean of the numeric percentage for pct_diff.
C15_ForecastSeries ==
  (request.op = "prepare_forecast_data" /\ request.metric \in ValidMetrics) =>
     /\ ~response.raised
     /\ Len(response.value) = Cardinality(SeasonYears)
     /\ \A k \in 1..Len(response.value) - 1 :
          response.value[k].Year < response.value[k + 1].Year
     /\ \A k \in 1..Len(response.value) :
          LET row == response.value[k]
              J   == { i \in MatchIdx(request.season, StrVal(Str_All)) :
                         df[i].Year = row.Year }
          IN  /\ J # {}
              /\ request.metric = "area" => row.Value = FromInt(SumOver(J, "Area"))
              /\ request.metric = "burned" => row.Value = FromInt(SumOver(J, "Burned"))
              /\ request.metric = "pct_diff" => IsMeanOver(row.Value, J)

\* The burned series over all seasons of a table with both 2020 records:
\* 54 + 10 hectares burned in 2020.
C15_Witness ==
  /\ request.op = "prepare_forecast_data"
  /\ request.metric = "burned"
  /\ request.season = Str_All
  /\ Len(df) = MaxRows
  /\ \E k \in 1..Len(response.value) :
       response.value[k] = [Year |-> 2020, Value |-> FromInt(64)]

\* C16: for a metric outside {area, burned, pct_diff}, prepare_forecast_data
\* fails with an invalid-metric error that reaches the caller (the
\* generate_forecast callback lets it through); no series comes back and no
\* default metric is taken.
C16_InvalidMetricRaises ==
  /\ (request.op = "prepare_forecast_data" /\ request.metric \notin ValidMetrics) =>
       (response.raised /\ response.exc = "ValueError" /\ response.value = <<>>)
  /\ (/\ request.op = "generate_forecast"
      /\ request.n_clicks > 0
      /\ request.metric \notin ValidMetrics) =>
       (response.raised /\ response.exc = "ValueError" /\ response.value = <<>>)

\* A click on Generate Forecast with a metric the dropdown does not have, on
\* a table with records and a library that would fit.
C16_Witness ==
  /\ request.op = "generate_forecast"
  /\ request.n_clicks > 0
  /\ request.metric = "difference"
  /\ ~request.lib.raises
  /\ Len(df) = MaxRows
  /\ response.raised
  /\ response.exc = "ValueError"

\* The season is not "All" and no record of the dataset has it.
SeasonOutsideCatalog(season) ==
  season # Str_All /\ \A i \in 1..Len(df) : df[i].Season # season

\* The year is not "All" and is not the year of any record of the dataset.
YearOutsideCatalog(year) ==
  /\ NotAll(year)
  /\ PyInt(year).raised \/ \A i \in 1..Len(df) : df[i].Year # PyInt(year).value

\* C17: when a caller passes a season or year selector outside the closed
\* set (neither "All" nor a value of the dataset's catalogs), the filter
\* raises an invalid-selector error to the caller instead of returning a
\* default or an empty result.
C17_InvalidSelectorRaises ==
  (/\ request.op = "filter_data"
   /\ SeasonOutsideCatalog(request.season) \/ YearOutsideCatalog(request.year)) =>
     response.raised

\* The fit of the request cannot succeed: the library raises, the series is
\* empty, or it has fewer than 2 points for the exponential model.
FitFails ==
  \/ request.lib.raises
  \/ SeasonYears = {}
  \/ request.model_type = "exponential" /\ Cardinality(SeasonYears) < 2

ForecastRun ==
  /\ request.op = "generate_forecast"
  /\ request.n_clicks > 0
  /\ request.metric \in ValidMetrics

\* C18: for both models, a failure while fitting or forecasting (an
\* exception of the library, an empty series, a series of fewer than 2
\* points for the exponential model) makes the forecast operation return
\* zero forecast rows and fit metrics that carry the failure reason and
\* neither MAE nor RMSE; the exception does not reach the caller.
C18_FitFailureDegrades ==
  (ForecastRun /\ FitFails) =>
     /\ ~response.raised
     /\ response.value.forecast_data = <<>>
     /\ response.value.metrics.keys = {"error"}
     /\ response.value.metrics.error # ""

\* The library raises while ARIMA is fitted to a series of 3 years or more.
C18_Witness ==
  /\ ForecastRun
  /\ request.model_type = "arima"
  /\ request.lib.raises
  /\ Cardinality(SeasonYears) >= 3
  /\ ~response.raised
  /\ response.value.forecast_data = <<>>
  /\ "error" \in response.value.metrics.keys

ForecastSucceeded ==
  /\ ForecastRun
  /\ ~response.raised
  /\ "error" \notin response.value.metrics.keys

\* C19: a successful forecast with horizon h over a series whose largest
\* year is Y has exactly h rows, with the years Y+1, Y+2, ..., Y+h in that
\* order: no gap, and no year of the historical series among them.
C19_ForecastYears ==
  ForecastSucceeded =>
     LET fc == response.value.forecast_data
         Y  == CHOOSE y \in SeasonYears : \A z \in SeasonYears : z <= y
     IN  /\ Len(fc) = request.periods
         /\ \A i \in 1..Len(fc) : fc[i].Year = Y + i
         /\ \A i \in 1..Len(fc) : fc[i].Year \notin SeasonYears

\* Three periods after a series that ends in 2021.
C19_Witness ==
  /\ ForecastSucceeded
  /\ request.periods = 3
  /\ 2021 \in SeasonYears
  /\ Cardinality(SeasonYears) >= 2
  /\ Column(response.value.forecast_data, "Year") = <<2022, 2023, 2024>>

RECURSIVE SumSquares(_)
SumSquares(qs) ==
  IF qs = <<>> THEN FromInt(0)
  ELSE RatAdd(RatMul(Head(qs), Head(qs)), SumSquares(Tail(qs)))

\* v is the square of the sample standard deviation of xs:
\* n (n - 1) v = n * sum(x^2) - sum(x)^2.
IsSampleVariance(v, xs) ==
  LET n == Len(xs)
  IN  /\ n >= 2
      /\ ~IsNaN(v)
      /\ RatMul(v, FromInt(n * (n - 1)))
           = RatSub(RatMul(FromInt(n), SumSquares(xs)), RatMul(RatSum(xs), RatSum(xs)))

\* C20: in every row of a successful exponential-smoothing forecast,
\* Lower_CI = Forecast - 1.96 x std_dev(historical values) and
\* Upper_CI = Forecast + 1.96 x std_dev(historical values); so Lower_CI <=
\* Forecast <= Upper_CI and every row has the same interval width.
C20_ExponentialInterval ==
  (ForecastSucceeded /\ request.model_type = "exponential") =>
     LET fc == response.value.forecast_data
         xs == Column(response.value.historical_data, "Value")
     IN  \A i \in 1..Len(fc) :
           /\ fc[i].Lower_CI.point = fc[i].Forecast
           /\ fc[i].Lower_CI.z = <<-49, 25>>
           /\ IsSampleVariance(fc[i].Lower_CI.var, xs)
           /\ fc[i].Upper_CI.point = fc[i].Forecast
           /\ fc[i].Upper_CI.z = <<49, 25>>
           /\ IsSampleVariance(fc[i].Upper_CI.var, xs)
           /\ fc[i].Lower_CI.var[1] >= 0
           /\ fc[i].Upper_CI.var = fc[1].Upper_CI.var
           /\ fc[i].Lower_CI.var = fc[1].Lower_CI.var

\* An exponential forecast of three rows over a series that varies.
C20_Witness ==
  /\ ForecastSucceeded
  /\ request.model_type = "exponential"
  /\ Len(response.value.forecast_data) = 3
  /\ response.value.forecast_data[1].Lower_CI.var[1] > 0
  /\ response.value.forecast_data[3].Upper_CI.z = Z95

\* C21: get_years() and get_seasons() each return "All" first, then the
\* distinct values of the dataset without duplicates, the years in ascending
\* numeric order and the seasons in lexicographic order; every year and
\* every season of a record is in its catalog.
C21_Catalogs ==
  /\ request.op = "get_years" =>
       LET ys == response.value
       IN  /\ ~response.raised
           /\ ys[1] = StrVal(Str_All)
           /\ \A k \in 2..Len(ys) : ys[k].t = "int"
           /\ \A k \in 2..(Len(ys) - 1) : ys[k].n < ys[k + 1].n
           /\ \A i \in 1..Len(df) : \E k \in 2..Len(ys) : ys[k].n = df[i].Year
           /\ \A k \in 2..Len(ys) : \E i \in 1..Len(df) : ys[k].n = df[i].Year
  /\ request.op = "get_seasons" =>
       LET ss == response.value
       IN  /\ ~response.raised
           /\ ss[1] = Str_All
           /\ \A k \in 2..(Len(ss) - 1) : StrLess(ss[k], ss[k + 1])
           /\ \A i \in 1..Len(df) : \E k \in 2..Len(ss) : ss[k] = df[i].Season
           /\ \A k \in 2..Len(ss) : \E i \in 1..Len(df) : ss[k] = df[i].Season

\* The years of a table whose records come in descending year order, with a
\* year that two records share.
C21_Witness ==
  /\ request.op = "get_years"
  /\ Len(df) = MaxRows
  /\ df[1].Year > df[2].Year
  /\ df[3].Year = df[4].Year
  /\ response.value = <<StrVal(Str_All), IntVal(2019), IntVal(2020), IntVal(2021)>>

\* No record matches the selectors of the request.
EmptySelection == MatchIdx(request.season, request.year) = {}

PdfReady ==
  /\ request.op = "generate_export"
  /\ request.format_type = "pdf"
  /\ response.value.display = "block"

\* C25: every place that displays the average percentage (the KPI card of
\* update_dashboard, the summary of the PDF report) shows a placeholder,
\* with no digit in it and never the number 0, when the average is
\* undefined because no record matches.
C25_UndefinedAverageShown ==
  /\ (request.op = "update_dashboard" /\ WellFormedYear(request.year) /\ EmptySelection) =>
       /\ ~response.raised
       /\ response.value.kpi_pct = <<EmDash, "%">>
       /\ \A i \in 1..Len(response.value.kpi_pct) : ~IsDigit(response.value.kpi_pct[i])
  /\ (PdfReady /\ EmptySelection) =>
       LET shown == response.value.link.href.summary_data[4]
       IN  shown = <<EmDash, "%">> /\ \A i \in 1..Len(shown) : ~IsDigit(shown[i])

\* The KPI card for a season without records, on a table of four records.
C25_Witness ==
  /\ request.op = "update_dashboard"
  /\ request.season = Str_Zaid
  /\ request.year = StrVal(Str_All)
  /\ Len(df) = MaxRows
  /\ response.value.kpi_pct = <<EmDash, "%">>

\* Values an error of a fit that succeeded can have.
NumericErrors == { FromInt(0), <<5, 2>>, FromInt(3), FromInt(12) }

\* C26: when the forecaster returns a degraded result (zero forecast rows
\* and a failure reason), generate_forecast does not raise and renders it
\* apart from a populated result: the MAE and RMSE lines of the metrics
\* panel are not those of a numeric value, as if a fit had succeeded.
C26_DegradedRenderedApart ==
  (ForecastRun /\ FitFails) =>
     /\ ~response.raised
     /\ \A v \in NumericErrors :
          /\ response.value.metrics_display[1] # MetricLine(v)
          /\ response.value.metrics_display[2] # MetricLine(v)

NoCommas(s) == SelectSeq(s, LAMBDA c : c # ",")

\* text is the decimal numeral of v, with or without thousand separators.
IsNumeralOf(text, v) ==
  /\ NoCommas(text) # <<>>
  /\ AllDigits(NoCommas(text))
  /\ DigitsValue(NoCommas(text), 0) = v

\* C28: for a non-negative whole number v, format_number(v) with the
\* default decimals = 0 is the decimal numeral of v with thousand
\* separators: without the commas it reads as v (100 gives "100", 1200
\* gives "1,200", 0 gives "0").  Here v is each total of the KPI cards.
C28_FormatNumberReadsBack ==
  (request.op = "update_dashboard" /\ ~response.raised) =>
     LET I == MatchIdx(request.season, request.year)
     IN  /\ IsNumeralOf(response.value.kpi_area, SumOver(I, "Area"))
         /\ IsNumeralOf(response.value.kpi_burned, SumOver(I, "Burned"))
         /\ IsNumeralOf(response.value.kpi_diff, SumOver(I, "Difference"))

\* The values the year dropdown of the export tab sends: "All", or a year
\* of get_years(), an int.
DropdownYear(year) ==
  \/ ~NotAll(year)
  \/ year.t = "int" /\ \E i \in 1..Len(df) : df[i].Year = year.n

\* The rows generate_export works on: the whole table for scope "all", the
\* filtered rows for the other scopes.
ExportIdx ==
  IF request.scope = "all" THEN 1..Len(df) ELSE MatchIdx(request.season, request.year)

\* C29: for every season selector and every year the year dropdown can send
\* ("All" or an integer year of get_years()), a CSV or PDF export request
\* with n_clicks > 0 over a non-empty view ends with a download link whose
\* file name is built from the season and year parts, not with an error
\* status.
C29_ExportEndsWithLink ==
  (/\ request.op = "generate_export"
   /\ request.n_clicks > 0
   /\ request.format_type \in {"csv", "pdf"}
   /\ DropdownYear(request.year)
   /\ ExportIdx # {}) =>
     /\ ~response.raised
     /\ response.value.display = "block"
     /\ response.value.link # <<>>

\* C30: in every PDF report, for every scope and every (season, year)
\* selection, the summary statistics of the report are computed over the
\* rows handed to the report for its preview.
C30_ReportStatsOfReportRows ==
  PdfReady =>
     LET stats == response.value.link.href.stats
     IN  /\ stats.total_area = SumOver(ExportIdx, "Area")
         /\ stats.burned_area = SumOver(ExportIdx, "Burned")
         /\ stats.difference = SumOver(ExportIdx, "Difference")
         /\ IsMeanOver(stats.pct_avg, ExportIdx)

\* The value prepare_forecast_data(season, metric) has for the year y.
ForecastValueOf(season, metric, y) ==
  LET series == prepare_forecast_data(df, season, metric).value
  IN  { series[i].Value : i \in { j \in 1..Len(series) : series[j].Year = y } }

\* C27: the aggregation call sites agree.  For every season selector s and
\* every year y with a row in get_trend_data(s), the row's Area is
\* get_summary_stats(s, y).total_area and the value of
\* prepare_forecast_data(s, 'area') for y; its Pct is
\* get_summary_stats(s, y).pct_avg and the value of
\* prepare_forecast_data(s, 'pct_diff') for y.
C27_CallSitesAgree ==
  (request.op = "get_trend_data" /\ ~response.raised) =>
     \A k \in 1..Len(response.value) :
        LET row   == response.value[k]
            stats == get_summary_stats(df, request.season, IntVal(row.Year))
        IN  /\ ~stats.raised
            /\ row.Area = stats.value.total_area
            /\ row.Pct = stats.value.pct_avg
            /\ ForecastValueOf(request.season, "area", row.Year) = {FromInt(row.Area)}
            /\ ForecastValueOf(request.season, "pct_diff", row.Year) = {row.Pct}

\* The trend over all seasons of a table whose two 2021 records have the
\* percentages 40 and 12.5: the three call sites give 26.25.
C27_Witness ==
  /\ request.op = "get_trend_data"
  /\ request.season = Str_All
  /\ \E k \in 1..Len(response.value) :
       /\ response.value[k].Year = 2021
       /\ response.value[k].Pct = <<105, 4>>
       /\ get_summary_stats(df, Str_All, IntVal(2021)).value.pct_avg = <<105, 4>>
       /\ ForecastValueOf(Str_All, "pct_diff", 2021) = {<<105, 4>>}

\* --- Start-up load ---

HasColumn(file, name) ==
  \E i \in 1..Len(file.headers) : Strip(file.headers[i]) = name

\* The cells of the file under the column called name (after the strip).
CellsOf(file, name) ==
  LET i == CHOOSE j \in 1..Len(file.headers) : Strip(file.headers[j]) = name
  IN  [r \in 1..Len(file.rows) |-> file.rows[r][i]]

SomeCell(file, name, Bad(_)) ==
  /\ HasColumn(file, name)
  /\ \E r \in 1..Len(file.rows) : Bad(CellsOf(file, name)[r])

\* A Year column that can be made of integers: none of its cells is missing,
\* and they are all numbers, or all booleans (1 and 0), or each a text that
\* int() takes.
YearConverts(cells) ==
  /\ \A r \in 1..Len(cells) : ~IsNA(cells[r])
  /\ \/ \A r \in 1..Len(cells) : ~PyFloat(cells[r]).raised /\ cells[r] = NoUnderscores(cells[r])
     \/ \A r \in 1..Len(cells) : IsBoolText(cells[r])
     \/ \A r \in 1..Len(cells) : ~PyInt(StrVal(cells[r])).raised

\* A source the load has to refuse: no file, a core column absent, or a
\* core column that does not hold what it is to hold (a cell that marks a
\* missing value aside).
CoreAbsent(file) ==
  \/ \E f \in {"Year", "Season", "Area", "Burned", "Difference"} :
       ~HasColumn(file, ColumnOf(f))
  \/ ~HasColumn(file, Col_PctStr) /\ ~HasColumn(file, Col_PctNumeric)

CoreNotCoercible(file) ==
  \/ HasColumn(file, Col_Year) /\ ~YearConverts(CellsOf(file, Col_Year))
  \/ \E f \in {"Area", "Burned", "Difference"} :
       SomeCell(file, ColumnOf(f), LAMBDA c : ~IsNA(c) /\ PyFloat(c).raised)
  \/ /\ ~HasColumn(file, Col_PctNumeric)
     /\ SomeCell(file, Col_PctStr,
                 LAMBDA c : ~IsNA(c) /\ PyFloat(ReplacePercent(c)).raised)

BadSource(file) == ~file.exists \/ CoreAbsent(file) \/ CoreNotCoercible(file)

LoadRun == request.op = "load_data"

\* C22: loading a source that is missing, or that lacks a core column, or
\* whose core column cannot be coerced, fails with an error and leaves no
\* dataset.
C22_BadSourceFailsLoad ==
  (LoadRun /\ BadSource(request.file)) => (response.raised /\ df = NoDataset)

\* A file whose Year column the load accepts.
YearsLoad(file) ==
  /\ file.exists
  /\ HasColumn(file, Col_Year)
  /\ YearConverts(CellsOf(file, Col_Year))

\* The percentage text without its trailing "%".
DropTrailingPercent(s) ==
  IF s # <<>> /\ s[Len(s)] = "%" THEN SubSeq(s, 1, Len(s) - 1) ELSE s

IsPercentText(s) == ~PyFloat(DropTrailingPercent(s)).raised

TwelveAndAHalfPercent == <<"1", "2", ".", "5", "%">>

\* C23: a load whose file has no numeric percentage column derives it, for
\* every record, as the number written before the trailing "%" of the
\* percentage string; a load whose file has the numeric column keeps its
\* values as they are and succeeds whatever the string column holds, or
\* without one, leaving the string column as read.
C23_PercentageAtLoad ==
  (LoadRun /\ YearsLoad(request.file)) =>
    LET file == request.file
    IN  IF HasColumn(file, Col_PctNumeric)
        THEN /\ ~response.raised
             /\ Len(df) = Len(file.rows)
             /\ \A r \in 1..Len(df) :
                  /\ df[r].PctNumeric = PyFloat(CellsOf(file, Col_PctNumeric)[r]).value
                  /\ (/\ HasColumn(file, Col_PctStr)
                      /\ ~IsNA(CellsOf(file, Col_PctStr)[r])) =>
                       df[r].PctStr = CellsOf(file, Col_PctStr)[r]
        ELSE (/\ HasColumn(file, Col_PctStr)
              /\ ~SomeCell(file, Col_PctStr, LAMBDA c : ~IsPercentText(c))) =>
               /\ ~response.raised
               /\ Len(df) = Len(file.rows)
               /\ \A r \in 1..Len(df) :
                    df[r].PctNumeric =
                      PyFloat(DropTrailingPercent(CellsOf(file, Col_PctStr)[r])).value

\* A file without the numeric column and with a "12.5%" cell has been
\* loaded, and the record reads 12.5.
C23_Witness ==
  /\ LoadRun /\ ~response.raised
  /\ ~HasColumn(request.file, Col_PctNumeric)
  /\ \E r \in 1..Len(df) :
       /\ CellsOf(request.file, Col_PctStr)[r] = TwelveAndAHalfPercent
       /\ df[r].PctNumeric = <<25, 2>>

\* --- Concurrent requests ---

\* The progress of a request served alone on the table: n calls on from run.
RECURSIVE Alone(_, _, _, _)
Alone(table, calls, run, n) ==
  IF n = 0 \/ run.pc > Len(calls) THEN run
  ELSE LET next == Advance(table, calls, run)
       IN  Alone(next.df, calls, next.run, n - 1)

Serving(w) == request.of[w].op # "idle"

Finished(w) == Serving(w) /\ response[w].pc > Len(request.of[w].calls)

\* C24: however the calls of concurrent requests interleave, the loader's
\* table stays the table loaded, and every request has, after each of its
\* calls, the results it has after as many calls when served alone on the
\* table loaded.
C24_InterleavingsAgree ==
  /\ df = request.dataset
  /\ \A w \in Workers :
       Serving(w) =>
         response[w] = Alone(request.dataset, request.of[w].calls,
                             Start(request.of[w].calls),
                             Len(response[w].replies))

\* A populated comparison has finished, its trend chart's call included,
\* with a non-zero total, while the other worker is part-way through a
\* comparison of its own.
C24_Witness ==
  \E w, v \in Workers :
    /\ w # v
    /\ request.of[w].op = "comparison" /\ Finished(w)
    /\ Len(response[w].replies) = 7
    /\ response[w].replies[2].value.total_area > 0
    /\ response[w].replies[7].value # <<>>
    /\ request.of[v].op = "comparison" /\ ~Finished(v)
    /\ Len(response[v].replies) \in 1..6

=============================================================================
